---- MODULE Spec2Model ----
(***************************************************************************)
(* Model of the Surge Bulls & Void Bears metadata generator                *)
(* (tools/meta-gen/generator.ts and station-distribution.ts).              *)
(*                                                                         *)
(* Strings are sequences of one-character strings, so that their length    *)
(* and their characters are what the code computes.  The 32-bit state of   *)
(* the linear congruential generator is kept as two 16-bit limbs, because  *)
(* the products of the recurrence exceed the integers TLC computes with;   *)
(* the recurrence itself is exact (in the code every intermediate value is *)
(* below 2^53, so the double arithmetic of the code is exact too).         *)
(***************************************************************************)
EXTENDS Integers, Sequences, FiniteSets, TLC

VARIABLES
    configPath,     \* the configuration file handed to the run
    seedArg,        \* the seed argument ("" is falsy)
    envSeed,        \* process.env.SEED ("" when unset)
    seeds,          \* per run: the seed of a closure created on its own
    seq,            \* per run: the values such a closure has returned
    dist,           \* the value of STATION_DISTRIBUTION (in the pipeline: the
                    \* distribution handed to buildNftBlueprints)
    runs,           \* the runs of this behaviour
    pc,             \* per run: the position of the run
    rng,            \* per run: the state of the closure returned by createRng
    blueprints,     \* per run: the blueprint array
    pos,            \* per run: number of blueprints consumed by the record loop
    nft,            \* per run: the record built last (NO_NFT before the first)
    mintTimestamp,  \* per run: the timestamp handed to buildGeneratedNft (0: unset)
    nfts,           \* per run: the records returned to the caller of the pipeline
    files,          \* per run: the output directory, file name -> metadata
    error,          \* per run: the error the run failed with
    generator,      \* the image generator that is run
    metadataDir,    \* the metadata directory, file name -> metadata
    assetFiles,     \* the asset files that exist, as a set of paths
    ipc,            \* the position of generateAllImages
    jsonFiles,      \* the sorted metadata file names of the batch
    cursor,         \* the loop variable of the batch
    layerList,      \* the layer list extracted for the current image
    pending,        \* the overlays whose resize has not completed
    overlays,       \* the array Promise.all fills, position -> buffer
    lastCompleted,  \* the position whose resize completed last (0: none yet)
    imageBuffer,    \* the composited image, as its layers from bottom to top
    images,         \* the output directory, file name -> image
    successCount,   \* images generated by the batch
    errorCount,     \* errors caught by the batch
    caught,         \* the errors caught while generating, in order
    rejection       \* the error generateAllImages rejected with

\* The variables of the metadata generator, configPath apart
generatorVars == <<seedArg, envSeed, seeds, seq, dist, runs, pc, rng, blueprints, pos,
                   nft, mintTimestamp, nfts, files, error>>

\* The variables of the image generators
imageVars == <<generator, metadataDir, assetFiles, ipc, jsonFiles, cursor, layerList,
               pending,
               overlays, lastCompleted, imageBuffer, images, successCount, errorCount,
               caught, rejection>>

vars == <<configPath, generatorVars, imageVars>>

-----------------------------------------------------------------------------
(* Bounds of the model *)

\* Two interleaved runs are at most MaxLead awaits apart.
MaxLead == 2

\* Seeds are the strings over SEED_CODES of at most MaxSeedLen characters.
MaxSeedLen == 1

\* Date.now() returns a value of 1..MaxTime.
MaxTime == 2

\* The pipeline specification draws distributions of at most MaxGroupCount
\* members per station.
MaxGroupCount == 2

\* The seeds of the closures created on their own are the strings over
\* SEED_CODES of at most MaxStreamSeedLen characters.
MaxStreamSeedLen == 2

-----------------------------------------------------------------------------
(* JavaScript values *)

\* An optional value is NONE (undefined) or Some(x); values that are never
\* compared with a value of another kind are NONE while they are unset.
NONE == {}
Some(x) == {x}
The(o) == CHOOSE x \in o : TRUE

\* x || 0 for an optional number
OrZero(o) == IF o = NONE \/ o = Some(0) THEN 0 ELSE The(o)

NO_ERROR == "none"

\* The record of a run before buildGeneratedNft is called: no record, no id
NO_NFT == [id |-> 0]

\* The stream of a run before createRng is called: no closure, no draw
NO_RNG == [hi |-> 0, lo |-> 0, calls |-> 0]

RECURSIVE SumSeq(_)
SumSeq(q) == IF q = <<>> THEN 0 ELSE Head(q) + SumSeq(Tail(q))

SeqOf(S, n) == UNION {[1..k -> S] : k \in 0..n}

DIGITS == <<"0", "1", "2", "3", "4", "5", "6", "7", "8", "9">>

\* String(n) for a natural number n
RECURSIVE String(_)
String(n) == IF n < 10 THEN <<DIGITS[n + 1]>>
             ELSE String(n \div 10) \o <<DIGITS[(n % 10) + 1]>>

\* str.padStart(width, ch)
RECURSIVE padStart(_, _, _)
padStart(str, width, ch) ==
    IF Len(str) >= width THEN str ELSE padStart(<<ch>> \o str, width, ch)

\* Math.round(num / den) for num >= 0, den > 0: halves are rounded up
MathRound(num, den) == (2 * num + den) \div (2 * den)

-----------------------------------------------------------------------------
(* PRNG *)

LIMB == 2 ^ 16

MULTIPLIER == 1664525
INCREMENT == 1013904223

\* The closure state s of createRng as limbs: s = hi * 2^16 + lo.  calls counts
\* the invocations of the closure.
RngState(s) == [hi |-> s \div LIMB, lo |-> s % LIMB, calls |-> 0]

\* Mutant: the seed is folded into its length
createRng_Length(seed) == RngState(IF Len(seed) = 0 THEN 1 ELSE Len(seed))

\* seed.split("").reduce((acc, ch) => acc + ch.charCodeAt(0), 0) || 1
createRng(seed) ==
    LET sum == SumSeq(seed)
    IN  RngState(IF sum = 0 THEN 1 ELSE sum)

\* Mutant: the carry of the low limb is dropped
RngNext_NoCarry(r) ==
    LET p == r.lo * (MULTIPLIER % LIMB) + (INCREMENT % LIMB)
        q == r.hi * (MULTIPLIER % LIMB) + r.lo * (MULTIPLIER \div LIMB)
               + (INCREMENT \div LIMB)
    IN  [hi |-> q % LIMB, lo |-> p % LIMB, calls |-> r.calls + 1]

\* s = (s * 1664525 + 1013904223) % 4294967296
RngNext(r) ==
    LET p == r.lo * (MULTIPLIER % LIMB) + (INCREMENT % LIMB)
        q == r.hi * (MULTIPLIER % LIMB) + r.lo * (MULTIPLIER \div LIMB)
               + (INCREMENT \div LIMB) + (p \div LIMB)
    IN  [hi |-> q % LIMB, lo |-> p % LIMB, calls |-> r.calls + 1]

\* Math.floor(v * n) for the value v = s / 4294967296 the closure returned
\* from state r
FloorMul(r, n) == (r.hi * n + ((r.lo * n) \div LIMB)) \div LIMB

\* Mutant: array[i] = array[j] without the assignment back
Swap_Overwrite(array, a, b) == [array EXCEPT ![a] = array[b]]

\* [array[i], array[j]] = [array[j], array[i]]
Swap(array, a, b) == [array EXCEPT ![a] = array[b], ![b] = array[a]]

\* Mutant: array[j] = array[i] without the assignment back
ShuffleStep_Copy(st, i) ==
    LET r1 == RngNext(st.rng)
        j  == FloorMul(r1, i + 1)
    IN  [array |-> [st.array EXCEPT ![j + 1] = st.array[i + 1]], rng |-> r1]

\* One pass of the loop of shuffleInPlace, for the 0-based index i
ShuffleStep(st, i) ==
    LET r1 == RngNext(st.rng)
        j  == FloorMul(r1, i + 1)
    IN  [array |-> Swap(st.array, i + 1, j + 1), rng |-> r1]

\* The passes of the loop for i = hi, hi - 1, ..., lo in this order.  The range
\* is halved, and the upper half is evaluated (the test on its length, which
\* always holds) before the lower half starts, so that the evaluation does not
\* nest once per element.
RECURSIVE ShuffleLoop(_, _, _)
ShuffleLoop(st, hi, lo) ==
    IF hi < lo THEN st
    ELSE IF hi = lo THEN ShuffleStep(st, hi)
    ELSE LET mid   == (hi + lo) \div 2
             upper == ShuffleLoop(st, hi, mid + 1)
         IN  IF Len(upper.array) >= 0 THEN ShuffleLoop(upper, mid, lo) ELSE upper

\* Mutant: the loop runs down to i = 0
shuffleInPlace_ToZero(array, r) ==
    ShuffleLoop([array |-> array, rng |-> r], Len(array) - 1, 0)

\* for (let i = array.length - 1; i > 0; i--)
shuffleInPlace(array, r) ==
    ShuffleLoop([array |-> array, rng |-> r], Len(array) - 1, 1)

-----------------------------------------------------------------------------
(* station-distribution.ts *)

\* A StationAllocation.  The ratios are kept in hundredths (0.48 is 48); an
\* absent hybridCount is NONE.
Alloc(id, n, bull, bear, hybrid) ==
    [stationId |-> id, count |-> n, bullRatio |-> bull, bearRatio |-> bear,
     hybridCount |-> hybrid]

STATION_DISTRIBUTION ==
    << Alloc(1, 28, 50, 50, NONE), Alloc(2, 28, 50, 50, NONE),
       Alloc(3, 28, 50, 50, NONE), Alloc(4, 28, 50, 50, NONE),
       Alloc(5, 28, 50, 50, NONE), Alloc(6, 28, 50, 50, NONE),
       Alloc(7, 28, 50, 50, NONE), Alloc(8, 29, 48, 48, Some(1)),
       Alloc(9, 27, 50, 50, NONE), Alloc(10, 27, 50, 50, NONE),
       Alloc(11, 27, 50, 50, NONE), Alloc(12, 27, 50, 50, NONE) >>

COLLECTION_SIZE == 333
STATION_COUNT == 12

\* |actualRatio - expectedRatio| > 0.01, in hundredths of alloc.count
RatioMismatch(alloc) ==
    LET hybridCount == OrZero(alloc.hybridCount)
        actual   == (alloc.bullRatio + alloc.bearRatio) * alloc.count
        expected == 100 * (alloc.count - hybridCount)
        diff     == IF actual >= expected THEN actual - expected
                    ELSE expected - actual
    IN  diff > alloc.count

\* The errors pushed inside the loop for the allocations d[k..]
RECURSIVE AllocErrors(_, _)
AllocErrors(d, k) ==
    IF k > Len(d) THEN <<>>
    ELSE (IF RatioMismatch(d[k]) THEN << <<"ratio", d[k].stationId>> >> ELSE <<>>)
         \o (IF d[k].stationId < 1 \/ d[k].stationId > STATION_COUNT
             THEN << <<"range", d[k].stationId>> >> ELSE <<>>)
         \o AllocErrors(d, k + 1)

\* Mutant: the station ids are not checked for duplicates
ValidateDistribution_NoDuplicateCheck(d) ==
    LET total  == SumSeq([k \in 1..Len(d) |-> d[k].count])
        errors == AllocErrors(d, 1)
                  \o (IF total # COLLECTION_SIZE THEN << <<"total", total>> >>
                      ELSE <<>>)
    IN  [valid |-> errors = <<>>, total |-> total, errors |-> errors]

ValidateDistribution(d) ==
    LET total  == SumSeq([k \in 1..Len(d) |-> d[k].count])
        ids    == {d[k].stationId : k \in 1..Len(d)}
        errors == AllocErrors(d, 1)
                  \o (IF total # COLLECTION_SIZE THEN << <<"total", total>> >>
                      ELSE <<>>)
                  \o (IF Cardinality(ids) # Len(d) THEN << <<"duplicate", 0>> >>
                      ELSE <<>>)
    IN  [valid |-> errors = <<>>, total |-> total, errors |-> errors]

validateStationDistribution == ValidateDistribution(STATION_DISTRIBUTION)

\* Mutant: the bears are rounded from their ratio too
getArchetypeCounts_RoundBoth(alloc) ==
    LET hybrids   == OrZero(alloc.hybridCount)
        remaining == alloc.count - hybrids
    IN  [bulls |-> MathRound(remaining * alloc.bullRatio, 100),
         bears |-> MathRound(remaining * alloc.bearRatio, 100),
         hybrids |-> hybrids]

\* Math.round(remaining * alloc.bullRatio): with the ratios of the model
\* (0.5, which is exact, and 0.48, for which remaining * ratio is never
\* half-way between two integers) the rounding of the double product is the
\* rounding of the exact product.
getArchetypeCounts(alloc) ==
    LET hybrids   == OrZero(alloc.hybridCount)
        remaining == alloc.count - hybrids
        bulls     == MathRound(remaining * alloc.bullRatio, 100)
        bears     == remaining - bulls
    IN  [bulls |-> bulls, bears |-> bears, hybrids |-> hybrids]

-----------------------------------------------------------------------------
(* The configuration file *)

CATEGORIES == <<"CHAOS", "THRESHOLD", "ORDEAL_REWARD", "MYTHIC">>

LAYER_KEYS ==
    <<"background", "body", "eyes", "headwear", "mouth", "accessory", "aura">>

LAYER_NAMES ==
    <<"Background", "Body", "Eyes", "Headwear", "Mouth", "Accessory", "Aura">>

LAYER_COUNT == 7
TRAIT_COUNT == 9
TIER_COUNT == 7

\* scoring.categories as documented
SCORING_CATEGORIES ==
    [CHAOS |-> 7, THRESHOLD |-> 12, ORDEAL_REWARD |-> 21, MYTHIC |-> 42]

Tier(t, name, min, max) == [tier |-> t, name |-> name, min |-> min, max |-> max]

\* Mutant: tier 3 starts at 65, which leaves the score 64 to no tier
TIER_THRESHOLDS_Typo ==
    << Tier(1, "Common", 7, 49), Tier(2, "Uncommon", 50, 63),
       Tier(3, "Rare", 65, 77), Tier(4, "Epic", 78, 98),
       Tier(5, "Legendary", 99, 140), Tier(6, "Mythic", 141, 210),
       Tier(7, "Divine", 211, 294) >>

\* scoring.tier_thresholds as documented
TIER_THRESHOLDS ==
    << Tier(1, "Common", 7, 49), Tier(2, "Uncommon", 50, 63),
       Tier(3, "Rare", 64, 77), Tier(4, "Epic", 78, 98),
       Tier(5, "Legendary", 99, 140), Tier(6, "Mythic", 141, 210),
       Tier(7, "Divine", 211, 294) >>

\* A tier table that loadConfig accepts and that leaves the scores 42..49 and
\* 121..140 to no tier.
TIERS_WITH_GAPS ==
    << Tier(1, "Common", 7, 41), Tier(2, "Uncommon", 50, 63),
       Tier(3, "Rare", 64, 77), Tier(4, "Epic", 78, 98),
       Tier(5, "Legendary", 99, 120), Tier(6, "Mythic", 141, 210),
       Tier(7, "Divine", 211, 294) >>

HERO_STATIONS ==
    << [id |-> 1, name |-> "Ordinary World"],
       [id |-> 2, name |-> "Call to Adventure"],
       [id |-> 3, name |-> "Refusal of the Call"],
       [id |-> 4, name |-> "Meeting the Mentor"],
       [id |-> 5, name |-> "Crossing the Threshold"],
       [id |-> 6, name |-> "Tests, Allies, Enemies"],
       [id |-> 7, name |-> "Approach to the Inmost Cave"],
       [id |-> 8, name |-> "The Ordeal"],
       [id |-> 9, name |-> "Reward (Seizing the Sword)"],
       [id |-> 10, name |-> "The Road Back"],
       [id |-> 11, name |-> "Resurrection"],
       [id |-> 12, name |-> "Return with the Elixir"] >>

COLLECTION ==
    [name |-> "Surge Bulls & Void Bears", symbol |-> "SBVB",
     image_cid |-> "QmPlaceholder"]

\* A layer whose j-th trait is named j and has the category cat[j].
Layer(l, n, cat) ==
    [name |-> LAYER_NAMES[l], key |-> LAYER_KEYS[l],
     traits |-> [j \in 1..n |-> [name |-> j, category |-> cat[j]]]]

\* The categories of the 9 traits of layer l: every layer holds all four.
MixedCategories(l) == [j \in 1..TRAIT_COUNT |-> CATEGORIES[((l + j) % 4) + 1]]

Config(layers, tiers) ==
    [collection |-> COLLECTION,
     scoring |-> [categories |-> SCORING_CATEGORIES, tier_thresholds |-> tiers],
     hero_journey |-> [stations |-> HERO_STATIONS],
     layers |-> layers]

MixedLayers ==
    [l \in 1..LAYER_COUNT |-> Layer(l, TRAIT_COUNT, MixedCategories(l))]

UniformLayers(category) ==
    [l \in 1..LAYER_COUNT |->
        Layer(l, TRAIT_COUNT, [j \in 1..TRAIT_COUNT |-> category])]

\* The configuration files of the model, by name
ConfigFiles ==
    [ metaagen_config |-> Config(MixedLayers, TIER_THRESHOLDS),
      all_chaos       |-> Config(UniformLayers("CHAOS"), TIER_THRESHOLDS),
      all_mythic      |-> Config(UniformLayers("MYTHIC"), TIER_THRESHOLDS),
      tier_gaps       |-> Config(MixedLayers, TIERS_WITH_GAPS),
      chaos_tier_gaps |-> Config(UniformLayers("CHAOS"), TIERS_WITH_GAPS),
      six_layers      |-> Config(SubSeq(MixedLayers, 1, LAYER_COUNT - 1),
                                 TIER_THRESHOLDS),
      eight_traits    |-> Config([l \in 1..LAYER_COUNT |->
                                    Layer(l, TRAIT_COUNT - 1, MixedCategories(l))],
                                 TIER_THRESHOLDS),
      eight_layers    |-> Config(Append(MixedLayers, MixedLayers[1]),
                                 TIER_THRESHOLDS),
      no_mythic       |-> [Config(MixedLayers, TIER_THRESHOLDS)
                             EXCEPT !.scoring.categories =
                                [CHAOS |-> 7, THRESHOLD |-> 12, ORDEAL_REWARD |-> 21]],
      six_tiers       |-> Config(MixedLayers,
                                 SubSeq(TIER_THRESHOLDS, 1, TIER_COUNT - 1)),
      eleven_stations |-> [Config(MixedLayers, TIER_THRESHOLDS)
                             EXCEPT !.hero_journey.stations =
                                SubSeq(HERO_STATIONS, 1, STATION_COUNT - 1)] ]

ConfigPaths == DOMAIN ConfigFiles

\* JSON.parse(fs.readFileSync(configPath, "utf-8"))
ReadConfig(path) == ConfigFiles[path]

\* Mutant: the number of traits of the layers is not validated
loadConfig_NoTraitCheck(path) ==
    LET config == ReadConfig(path)
    IN  IF Len(config.layers) # LAYER_COUNT
        THEN [threw |-> TRUE, error |-> "Expected 7 layers"]
        ELSE IF \E c \in {CATEGORIES[i] : i \in 1..Len(CATEGORIES)} :
                    c \notin DOMAIN config.scoring.categories
        THEN [threw |-> TRUE, error |-> "Missing scoring category"]
        ELSE IF Len(config.scoring.tier_thresholds) # TIER_COUNT
        THEN [threw |-> TRUE, error |-> "Expected 7 tier thresholds"]
        ELSE IF Len(config.hero_journey.stations) # STATION_COUNT
        THEN [threw |-> TRUE, error |-> "Expected 12 hero journey stations"]
        ELSE [threw |-> FALSE, config |-> config]

\* loadConfig: the configuration, or the error it throws
loadConfig(path) ==
    LET config == ReadConfig(path)
    IN  IF Len(config.layers) # LAYER_COUNT
        THEN [threw |-> TRUE, error |-> "Expected 7 layers"]
        ELSE IF \E l \in 1..Len(config.layers) :
                    Len(config.layers[l].traits) # TRAIT_COUNT
        THEN [threw |-> TRUE, error |-> "must have exactly 9 traits"]
        ELSE IF \E c \in {CATEGORIES[i] : i \in 1..Len(CATEGORIES)} :
                    c \notin DOMAIN config.scoring.categories
        THEN [threw |-> TRUE, error |-> "Missing scoring category"]
        ELSE IF Len(config.scoring.tier_thresholds) # TIER_COUNT
        THEN [threw |-> TRUE, error |-> "Expected 7 tier thresholds"]
        ELSE IF Len(config.hero_journey.stations) # STATION_COUNT
        THEN [threw |-> TRUE, error |-> "Expected 12 hero journey stations"]
        ELSE [threw |-> FALSE, config |-> config]

-----------------------------------------------------------------------------
(* Blueprint generation *)

\* n pushes of { id: id++, station, archetype } starting with id first
Pushes(n, first, station, archetype) ==
    [i \in 1..n |-> [id |-> first + i - 1, station |-> station,
                     archetype |-> archetype]]

\* stations.find((s) => s.id === id)
FindStation(stations, id) ==
    IF \E i \in 1..Len(stations) : stations[i].id = id
    THEN Some(stations[CHOOSE i \in 1..Len(stations) :
                         /\ stations[i].id = id
                         /\ \A k \in 1..(i - 1) : stations[k].id # id])
    ELSE NONE

\* The loop over the allocations d[k..]; acc is the array built so far.
RECURSIVE Expand(_, _, _, _)
Expand(config, d, k, acc) ==
    IF k > Len(d) THEN [threw |-> FALSE, blueprints |-> acc]
    ELSE LET found   == FindStation(config.hero_journey.stations, d[k].stationId)
             station == The(found)
             counts  == getArchetypeCounts(d[k])
             h       == Pushes(counts.hybrids, Len(acc) + 1, station, "Hybrid")
             b       == Pushes(counts.bulls, Len(acc) + Len(h) + 1, station, "Bull")
             e       == Pushes(counts.bears, Len(acc) + Len(h) + Len(b) + 1,
                               station, "Bear")
         IN  IF found = NONE
             THEN [threw |-> TRUE, error |-> "Unknown stationId"]
             ELSE Expand(config, d, k + 1, acc \o h \o b \o e)

\* Mutant: the ids given before the shuffle are kept
Reindex_Skipped(array) == array

\* blueprints.forEach((bp, idx) => { bp.id = idx + 1 })
Reindex(array) == [idx \in 1..Len(array) |-> [array[idx] EXCEPT !.id = idx]]

buildNftBlueprints(config, d, r) ==
    LET built == Expand(config, d, 1, <<>>)
        shuffled == shuffleInPlace(built.blueprints, r)
    IN  IF built.threw THEN [threw |-> TRUE, error |-> built.error, rng |-> r]
        ELSE [threw |-> FALSE, blueprints |-> Reindex(shuffled.array),
              rng |-> shuffled.rng]

-----------------------------------------------------------------------------
(* Trait selection and scoring *)

\* Mutant: the draw of a layer leaves the stream where it was
pickRandomTrait_NoAdvance(layer, r) ==
    LET r1  == RngNext(r)
        idx == FloorMul(r1, Len(layer.traits))
    IN  [trait |-> IF idx < Len(layer.traits) THEN Some(layer.traits[idx + 1])
                   ELSE NONE,
         rng |-> r]

\* Mutant: the index is rounded up, Math.ceil for Math.floor
pickRandomTrait_Ceil(layer, r) ==
    LET r1  == RngNext(r)
        idx == FloorMul(r1, Len(layer.traits)) + 1
    IN  [trait |-> IF idx < Len(layer.traits) THEN Some(layer.traits[idx + 1])
                   ELSE NONE,
         rng |-> r1]

\* layer.traits[Math.floor(rng() * layer.traits.length)]
pickRandomTrait(layer, r) ==
    LET r1  == RngNext(r)
        idx == FloorMul(r1, Len(layer.traits))
    IN  [trait |-> IF idx < Len(layer.traits) THEN Some(layer.traits[idx + 1])
                   ELSE NONE,
         rng |-> r1]

\* The callback of config.layers.map for the layers l.., in order
RECURSIVE MapLayers(_, _, _, _)
MapLayers(config, r, l, acc) ==
    IF l > Len(config.layers) THEN [threw |-> FALSE, traits |-> acc, rng |-> r]
    ELSE LET layer  == config.layers[l]
             picked == pickRandomTrait(layer, r)
             trait  == The(picked.trait)
         IN  IF picked.trait = NONE
             THEN [threw |-> TRUE, error |-> "TypeError", rng |-> picked.rng]
             ELSE MapLayers(config, picked.rng, l + 1,
                    Append(acc,
                      [layerKey |-> layer.key, traitType |-> layer.name,
                       value |-> trait.name, category |-> trait.category,
                       score |-> IF trait.category \in DOMAIN config.scoring.categories
                                 THEN config.scoring.categories[trait.category]
                                 ELSE NONE]))

generateTraitsForNft(config, r) == MapLayers(config, r, 1, <<>>)

\* Mutant: the sum leaves out the first trait
computeTotalScore_SkipFirst(traits) ==
    SumSeq([i \in 1..(Len(traits) - 1) |-> traits[i + 1].score])

\* traits.reduce((sum, t) => sum + t.score, 0)
computeTotalScore(traits) == SumSeq([i \in 1..Len(traits) |-> traits[i].score])

\* Mutant: the upper end of the range is not tested
resolveTier_NoMax(score, tiers) ==
    LET hits == {i \in 1..Len(tiers) : score >= tiers[i].min}
    IN  IF hits = {} THEN [threw |-> TRUE, error |-> "outside tier thresholds"]
        ELSE [threw |-> FALSE,
              tier |-> tiers[CHOOSE i \in hits : \A k \in hits : i <= k]]

\* Mutant: the last tier that holds the score is returned
resolveTier_Last(score, tiers) ==
    LET hits == {i \in 1..Len(tiers) : score >= tiers[i].min /\ score <= tiers[i].max}
    IN  IF hits = {} THEN [threw |-> TRUE, error |-> "outside tier thresholds"]
        ELSE [threw |-> FALSE,
              tier |-> tiers[CHOOSE i \in hits : \A k \in hits : i >= k]]

\* tiers.find((t) => score >= t.min && score <= t.max), or the error thrown
resolveTier(score, tiers) ==
    LET hits == {i \in 1..Len(tiers) : score >= tiers[i].min /\ score <= tiers[i].max}
    IN  IF hits = {} THEN [threw |-> TRUE, error |-> "outside tier thresholds"]
        ELSE [threw |-> FALSE,
              tier |-> tiers[CHOOSE i \in hits : \A k \in hits : i <= k]]

-----------------------------------------------------------------------------
(* Inscription tag *)

INSCRIPTION_CHARS ==
    <<"A", "B", "C", "D", "E", "F", "G", "H", "J", "K", "L", "M", "N", "P", "Q",
      "R", "S", "T", "U", "V", "W", "X", "Y", "Z", "2", "3", "4", "5", "6", "7",
      "8", "9">>

TAG_LENGTH == 4

\* What tag += x appends when x is undefined
UNDEFINED_TEXT == <<"u", "n", "d", "e", "f", "i", "n", "e", "d">>

\* Mutant: the index is drawn for an alphabet of one symbol more
RECURSIVE TagLoop_OneMore(_, _, _)
TagLoop_OneMore(tag, r, i) ==
    IF i < TAG_LENGTH
    THEN LET r1  == RngNext(r)
             idx == FloorMul(r1, Len(INSCRIPTION_CHARS) + 1)
         IN  TagLoop_OneMore(tag \o (IF idx < Len(INSCRIPTION_CHARS)
                                     THEN <<INSCRIPTION_CHARS[idx + 1]>>
                                     ELSE UNDEFINED_TEXT),
                             r1, i + 1)
    ELSE [tag |-> tag, rng |-> r]

\* Mutant: the index is drawn for an alphabet of one symbol less
RECURSIVE TagLoop_OneLess(_, _, _)
TagLoop_OneLess(tag, r, i) ==
    IF i < TAG_LENGTH
    THEN LET r1  == RngNext(r)
             idx == FloorMul(r1, Len(INSCRIPTION_CHARS) - 1)
         IN  TagLoop_OneLess(tag \o <<INSCRIPTION_CHARS[idx + 1]>>, r1, i + 1)
    ELSE [tag |-> tag, rng |-> r]

\* The loop of generateTag from iteration i on
RECURSIVE TagLoop(_, _, _)
TagLoop(tag, r, i) ==
    IF i < TAG_LENGTH
    THEN LET r1  == RngNext(r)
             idx == FloorMul(r1, Len(INSCRIPTION_CHARS))
         IN  TagLoop(tag \o (IF idx < Len(INSCRIPTION_CHARS)
                             THEN <<INSCRIPTION_CHARS[idx + 1]>>
                             ELSE UNDEFINED_TEXT),
                     r1, i + 1)
    ELSE [tag |-> tag, rng |-> r]

generateTag(r) == TagLoop(<<>>, r, 0)

-----------------------------------------------------------------------------
(* NFT generation *)

\* Mutant: the tag is drawn from a stream seeded with the timestamp
buildGeneratedNft_TimestampTag(blueprint, config, r, ts) ==
    LET drafted    == generateTraitsForNft(config, r)
        totalScore == computeTotalScore(drafted.traits)
        resolved   == resolveTier(totalScore, config.scoring.tier_thresholds)
        tagged     == generateTag(RngState(ts))
    IN  IF drafted.threw
        THEN [threw |-> TRUE, error |-> drafted.error, rng |-> drafted.rng]
        ELSE IF resolved.threw
        THEN [threw |-> TRUE, error |-> resolved.error, rng |-> drafted.rng]
        ELSE [threw |-> FALSE, rng |-> drafted.rng,
              nft |-> [id |-> blueprint.id, station |-> blueprint.station,
                       archetype |-> blueprint.archetype,
                       traits |-> drafted.traits, totalScore |-> totalScore,
                       tier |-> resolved.tier, inscriptionTag |-> tagged.tag,
                       mintTimestamp |-> ts]]

\* Mutant: the tag is drawn before the traits
buildGeneratedNft_TagFirst(blueprint, config, r, ts) ==
    LET tagged     == generateTag(r)
        drafted    == generateTraitsForNft(config, tagged.rng)
        totalScore == computeTotalScore(drafted.traits)
        resolved   == resolveTier(totalScore, config.scoring.tier_thresholds)
    IN  IF drafted.threw
        THEN [threw |-> TRUE, error |-> drafted.error, rng |-> drafted.rng]
        ELSE IF resolved.threw
        THEN [threw |-> TRUE, error |-> resolved.error, rng |-> drafted.rng]
        ELSE [threw |-> FALSE, rng |-> drafted.rng,
              nft |-> [id |-> blueprint.id, station |-> blueprint.station,
                       archetype |-> blueprint.archetype,
                       traits |-> drafted.traits, totalScore |-> totalScore,
                       tier |-> resolved.tier, inscriptionTag |-> tagged.tag,
                       mintTimestamp |-> ts]]

buildGeneratedNft(blueprint, config, r, ts) ==
    LET drafted    == generateTraitsForNft(config, r)
        totalScore == computeTotalScore(drafted.traits)
        resolved   == resolveTier(totalScore, config.scoring.tier_thresholds)
        tagged     == generateTag(drafted.rng)
    IN  IF drafted.threw
        THEN [threw |-> TRUE, error |-> drafted.error, rng |-> drafted.rng]
        ELSE IF resolved.threw
        THEN [threw |-> TRUE, error |-> resolved.error, rng |-> drafted.rng]
        ELSE [threw |-> FALSE, rng |-> tagged.rng,
              nft |-> [id |-> blueprint.id, station |-> blueprint.station,
                       archetype |-> blueprint.archetype,
                       traits |-> drafted.traits, totalScore |-> totalScore,
                       tier |-> resolved.tier, inscriptionTag |-> tagged.tag,
                       mintTimestamp |-> ts]]

-----------------------------------------------------------------------------
(* Metaplex metadata *)

PAD_WIDTH == 3

pad3(id) == padStart(String(id), PAD_WIDTH, "0")

\* A template literal is the sequence of its parts; the parts that are numbers
\* converted to text are sequences of characters.
buildMetadataJson(n, config) ==
    [name |-> <<config.collection.name, " #", pad3(n.id), " - Station ",
                String(n.station.id), ": ", n.station.name>>,
     symbol |-> config.collection.symbol,
     image |-> <<"ipfs://", config.collection.image_cid, "/", String(n.id), ".png">>,
     attributes |->
        << [trait_type |-> "Station", value |-> n.station.id],
           [trait_type |-> "Station Name", value |-> n.station.name],
           [trait_type |-> "Archetype", value |-> n.archetype],
           [trait_type |-> "Tier", value |-> n.tier.name],
           [trait_type |-> "Tier Score", value |-> n.totalScore],
           [trait_type |-> "Hero Journey Stage", value |-> n.station.name],
           [trait_type |-> "Hero Journey Progress", value |-> n.station.id] >>
        \o [i \in 1..Len(n.traits) |->
              [trait_type |-> n.traits[i].traitType, value |-> n.traits[i].value,
               category |-> n.traits[i].category, score |-> n.traits[i].score]]
        \o << [trait_type |-> "Inscription Tag", value |-> n.inscriptionTag],
              [trait_type |-> "Mint Timestamp", value |-> n.mintTimestamp] >>,
     properties |-> [files |-> << [uri |-> <<String(n.id), ".png">>,
                                   type |-> "image/png"] >>]]

\* path.join(outputDir, `${idStr}.json`), relative to outputDir
OutPath(n) == <<pad3(n.id), ".json">>

-----------------------------------------------------------------------------
(* Inputs *)

\* The character codes of "a" and "Q"
SEED_CODES == {97, 81}

Seeds == SeqOf(SEED_CODES, MaxSeedLen)

\* "surge-bulls-void-bears-genesis"
DEFAULT_SEED ==
    <<115, 117, 114, 103, 101, 45, 98, 117, 108, 108, 115, 45, 118, 111, 105,
      100, 45, 98, 101, 97, 114, 115, 45, 103, 101, 110, 101, 115, 105, 115>>

\* "b", a value of process.env.SEED
ENV_SEED == <<98>>

\* seed || process.env.SEED || "surge-bulls-void-bears-genesis"
RngSeed(seed, env) ==
    IF seed # <<>> THEN seed ELSE IF env # <<>> THEN env ELSE DEFAULT_SEED

\* Date.now()
Timestamps == 1..MaxTime

\* The configuration files loadConfig accepts
LoadableConfigPaths == {p \in ConfigPaths : ~loadConfig(p).threw}

\* The configuration files of the pipeline specification
PipelineConfigPaths == {"metaagen_config", "tier_gaps"}

\* The shipped distribution with the k-th allocation replaced
With(k, alloc) == [STATION_DISTRIBUTION EXCEPT ![k] = alloc]

\* The values of STATION_DISTRIBUTION of the model: the shipped one; edits of
\* it with a total of 334, a station id of 13 or of 0, a station id given
\* twice, ratios that do not match the hybrid count, and two of these at once;
\* and one whose ratios 1.2 and -0.2 sum to 1.
Distributions ==
    { STATION_DISTRIBUTION,
      With(12, Alloc(12, 28, 50, 50, NONE)),
      With(12, Alloc(13, 27, 50, 50, NONE)),
      With(1, Alloc(0, 28, 50, 50, NONE)),
      With(12, Alloc(11, 27, 50, 50, NONE)),
      With(8, Alloc(8, 29, 48, 48, NONE)),
      With(1, Alloc(1, 28, 50, 50, Some(1))),
      With(12, Alloc(13, 28, 50, 50, NONE)),
      With(1, Alloc(1, 28, 120, -20, NONE)) }

\* The distributions of the pipeline specification: none, station 1 alone,
\* station 8 (with its Hybrid) alone, or both.
SmallDistributions ==
    LET A(n) == Alloc(1, n, 50, 50, NONE)
        B(n) == Alloc(8, n, 48, 48, Some(1))
    IN       {<<>>}
        \cup {<<A(n)>> : n \in 1..MaxGroupCount}
        \cup {<<B(n)>> : n \in 1..MaxGroupCount}
        \cup {<<A(n), B(m)>> : n \in 1..MaxGroupCount, m \in 1..MaxGroupCount}

-----------------------------------------------------------------------------
(* generateCollection *)

Fail(r, e) ==
    /\ pc' = [pc EXCEPT ![r] = "failed"]
    /\ error' = [error EXCEPT ![r] = e]

\* Mutant: the loop ends one blueprint early
LoopBody_StopEarly(r) ==
    IF pos[r] >= Len(blueprints[r]) - 1
    THEN /\ pc' = [pc EXCEPT ![r] = "done"]
         /\ UNCHANGED <<rng, pos, nft, error>>
    ELSE LET built == buildGeneratedNft(blueprints[r][pos[r] + 1],
                                        ReadConfig(configPath), rng[r],
                                        mintTimestamp[r])
         IN  /\ rng' = [rng EXCEPT ![r] = built.rng]
             /\ IF built.threw
                THEN /\ Fail(r, built.error)
                     /\ UNCHANGED <<pos, nft>>
                ELSE /\ nft' = [nft EXCEPT ![r] = built.nft]
                     /\ pos' = [pos EXCEPT ![r] = pos[r] + 1]
                     /\ pc' = [pc EXCEPT ![r] = "write"]
                     /\ UNCHANGED error

\* Mutant: the closure is a singleton, a draw moves the cursor of every run
LoopBody_SharedCursor(r) ==
    IF pos[r] >= Len(blueprints[r])
    THEN /\ pc' = [pc EXCEPT ![r] = "done"]
         /\ UNCHANGED <<rng, pos, nft, error>>
    ELSE LET built == buildGeneratedNft(blueprints[r][pos[r] + 1],
                                        ReadConfig(configPath), rng[r],
                                        mintTimestamp[r])
         IN  /\ rng' = [q \in runs |-> built.rng]
             /\ IF built.threw
                THEN /\ Fail(r, built.error)
                     /\ UNCHANGED <<pos, nft>>
                ELSE /\ nft' = [nft EXCEPT ![r] = built.nft]
                     /\ pos' = [pos EXCEPT ![r] = pos[r] + 1]
                     /\ pc' = [pc EXCEPT ![r] = "write"]
                     /\ UNCHANGED error

\* One pass of the loop body up to its await, or the end of the function when
\* the blueprints are used up.
LoopBody(r) ==
    IF pos[r] >= Len(blueprints[r])
    THEN /\ pc' = [pc EXCEPT ![r] = "done"]
         /\ UNCHANGED <<rng, pos, nft, error>>
    ELSE LET built == buildGeneratedNft(blueprints[r][pos[r] + 1],
                                        ReadConfig(configPath), rng[r],
                                        mintTimestamp[r])
         IN  /\ rng' = [rng EXCEPT ![r] = built.rng]
             /\ IF built.threw
                THEN /\ Fail(r, built.error)
                     /\ UNCHANGED <<pos, nft>>
                ELSE /\ nft' = [nft EXCEPT ![r] = built.nft]
                     /\ pos' = [pos EXCEPT ![r] = pos[r] + 1]
                     /\ pc' = [pc EXCEPT ![r] = "write"]
                     /\ UNCHANGED error

\* generateCollection from its call to the await of mkdir
Generate(r) ==
    /\ pc[r] = "call"
    /\ LET loaded     == loadConfig(configPath)
           validation == ValidateDistribution(dist)
           r0         == createRng(RngSeed(seedArg, envSeed))
           built      == buildNftBlueprints(loaded.config, dist, r0)
       IN  IF loaded.threw
           THEN /\ Fail(r, loaded.error)
                /\ UNCHANGED <<rng, blueprints, mintTimestamp>>
           ELSE IF ~validation.valid
           THEN /\ Fail(r, "Station distribution validation failed")
                /\ UNCHANGED <<rng, blueprints, mintTimestamp>>
           ELSE IF built.threw
           THEN /\ Fail(r, built.error)
                /\ rng' = [rng EXCEPT ![r] = built.rng]
                /\ UNCHANGED <<blueprints, mintTimestamp>>
           ELSE IF Len(built.blueprints) # COLLECTION_SIZE
           THEN /\ Fail(r, "Expected 333 blueprints")
                /\ rng' = [rng EXCEPT ![r] = built.rng]
                /\ blueprints' = [blueprints EXCEPT ![r] = built.blueprints]
                /\ UNCHANGED mintTimestamp
           ELSE /\ rng' = [rng EXCEPT ![r] = built.rng]
                /\ blueprints' = [blueprints EXCEPT ![r] = built.blueprints]
                /\ \E now \in Timestamps :
                      mintTimestamp' = [mintTimestamp EXCEPT ![r] = now]
                /\ pc' = [pc EXCEPT ![r] = "mkdir"]
                /\ UNCHANGED error
    /\ UNCHANGED <<imageVars, configPath,
                   seedArg, envSeed, seeds, seq, dist, runs, pos, nft, nfts, files>>

\* mkdir has completed: the first pass of the loop
MkdirDone(r) ==
    /\ pc[r] = "mkdir"
    /\ LoopBody(r)
    /\ UNCHANGED <<imageVars, configPath,
                   seedArg, envSeed, seeds, seq, dist, runs, blueprints,
                   mintTimestamp, nfts, files>>

\* writeFile has completed: the file holds the metadata, and the loop goes on
WriteDone(r) ==
    /\ pc[r] = "write"
    /\ files' = [files EXCEPT ![r] =
                   (OutPath(nft[r]) :> buildMetadataJson(nft[r], ReadConfig(configPath)))
                   @@ files[r]]
    /\ LoopBody(r)
    /\ UNCHANGED <<imageVars, configPath,
                   seedArg, envSeed, seeds, seq, dist, runs, blueprints,
                   mintTimestamp, nfts>>

-----------------------------------------------------------------------------
(* The pipeline as its callers run it: createRng, buildNftBlueprints, then    *)
(* buildGeneratedNft for each blueprint in order                              *)

CallCreateRng(r) ==
    /\ pc[r] = "new"
    /\ rng' = [rng EXCEPT ![r] = createRng(seedArg)]
    /\ pc' = [pc EXCEPT ![r] = "rng"]
    /\ UNCHANGED <<imageVars, configPath,
                   seedArg, envSeed, seeds, seq, dist, runs, blueprints, pos, nft,
                   mintTimestamp, nfts, files, error>>

CallBuildNftBlueprints(r) ==
    /\ pc[r] = "rng"
    /\ LET built == buildNftBlueprints(ReadConfig(configPath), dist, rng[r])
       IN  /\ rng' = [rng EXCEPT ![r] = built.rng]
           /\ IF built.threw
              THEN /\ Fail(r, built.error)
                   /\ UNCHANGED <<blueprints, mintTimestamp>>
              ELSE /\ blueprints' = [blueprints EXCEPT ![r] = built.blueprints]
                   /\ \E now \in Timestamps :
                         mintTimestamp' = [mintTimestamp EXCEPT ![r] = now]
                   /\ pc' = [pc EXCEPT ![r] =
                               IF built.blueprints = <<>> THEN "done"
                               ELSE "blueprints"]
                   /\ UNCHANGED error
    /\ UNCHANGED <<imageVars, configPath,
                   seedArg, envSeed, seeds, seq, dist, runs, pos, nft, nfts, files>>

CallBuildGeneratedNft(r) ==
    /\ pc[r] = "blueprints"
    /\ pos[r] < Len(blueprints[r])
    /\ LET built == buildGeneratedNft(blueprints[r][pos[r] + 1],
                                      ReadConfig(configPath), rng[r],
                                      mintTimestamp[r])
       IN  /\ rng' = [rng EXCEPT ![r] = built.rng]
           /\ IF built.threw
              THEN /\ Fail(r, built.error)
                   /\ UNCHANGED <<pos, nft, nfts>>
              ELSE /\ nft' = [nft EXCEPT ![r] = built.nft]
                   /\ nfts' = [nfts EXCEPT ![r] = Append(nfts[r], built.nft)]
                   /\ pos' = [pos EXCEPT ![r] = pos[r] + 1]
                   /\ pc' = [pc EXCEPT ![r] =
                               IF pos[r] + 1 = Len(blueprints[r]) THEN "done"
                               ELSE "blueprints"]
                   /\ UNCHANGED error
    /\ UNCHANGED <<imageVars, configPath,
                   seedArg, envSeed, seeds, seq, dist, runs, blueprints,
                   mintTimestamp, files>>

-----------------------------------------------------------------------------
(* Two closures created on their own, each called 10 times                   *)

DRAWS == 10

StreamSeeds == SeqOf(SEED_CODES, MaxStreamSeedLen)

\* const rng1 = createRng(seed)
CreateStream(r) ==
    /\ pc[r] = "new"
    /\ rng' = [rng EXCEPT ![r] = createRng(seeds[r])]
    /\ pc' = [pc EXCEPT ![r] = "stream"]
    /\ UNCHANGED <<imageVars, configPath,
                   seedArg, envSeed, seeds, seq, dist, runs,
                   blueprints, pos, nft, mintTimestamp, nfts, files, error>>

\* One call of the callback of Array.from({ length: 10 }, () => rng1()); the
\* value s / 4294967296 is kept as the limbs of s.
Draw(r) ==
    /\ pc[r] = "stream"
    /\ LET r1 == RngNext(rng[r])
       IN  /\ rng' = [rng EXCEPT ![r] = r1]
           /\ seq' = [seq EXCEPT ![r] = Append(seq[r], <<r1.hi, r1.lo>>)]
           /\ pc' = [pc EXCEPT ![r] = IF Len(seq[r]) + 1 = DRAWS THEN "done"
                                      ELSE "stream"]
    /\ UNCHANGED <<imageVars, configPath,
                   seedArg, envSeed, seeds, dist, runs, blueprints,
                   pos, nft, mintTimestamp, nfts, files, error>>

-----------------------------------------------------------------------------
(* Image generators: the layer list of a metadata record *)

\* Layer rendering order, from back to front: the same array in both generators
LAYER_ORDER ==
    <<"background", "body", "headwear", "eyes", "mouth", "accessory", "aura">>

\* The names with capital letters that are lower-cased: the layer names and
\* the other attribute names of buildMetadataJson
CAPITALISED ==
    LAYER_NAMES \o
    <<"Station", "Station Name", "Archetype", "Tier", "Tier Score",
      "Hero Journey Stage", "Hero Journey Progress", "Inscription Tag",
      "Mint Timestamp">>

LOWER_CASE ==
    LAYER_KEYS \o
    <<"station", "station name", "archetype", "tier", "tier score",
      "hero journey stage", "hero journey progress", "inscription tag",
      "mint timestamp">>

\* Mutant: the attribute names are compared as they are written
toLowerCase_Unchanged(str) == str

\* str.toLowerCase(), for the attribute names of the metadata and the layer keys
toLowerCase(str) ==
    LET lower == [i \in 1..Len(CAPITALISED) |-> LOWER_CASE[i]]
        hits  == {i \in 1..Len(CAPITALISED) : CAPITALISED[i] = str}
    IN  IF hits = {} THEN str ELSE lower[CHOOSE i \in hits : TRUE]

\* array.find(P), for the set hits of the positions whose elements satisfy P:
\* the first of these elements, undefined when there is none
Find(array, hits) ==
    IF hits = {} THEN NONE
    ELSE Some(array[CHOOSE i \in hits : \A k \in hits : i <= k])

\* trait.asset: every trait of the configuration file but the last of its layer
\* names its file
TraitAsset(trait) ==
    IF trait.name = TRAIT_COUNT THEN NONE
    ELSE Some(<<"asset-", DIGITS[trait.name + 1], ".png">>)

ASSETS_DIR == "assets"

\* path.join(assetsDir, layerKey, filename)
PathJoin(assetsDir, layerKey, filename) == <<assetsDir, "/", layerKey, "/">> \o filename

\* The attribute of a layer key:
\* metadata.attributes.find(a => a.trait_type.toLowerCase() === layerKey.toLowerCase())
LayerAttribute(metadata, layerKey) ==
    Find(metadata.attributes,
         {i \in 1..Len(metadata.attributes) :
             toLowerCase(metadata.attributes[i].trait_type) = toLowerCase(layerKey)})

(* The generator that warns (generateImage) *)

\* The filename of a trait value; null (NONE) when the layer or the trait is
\* not found, undefined (NONE) when the trait names no file
resolveAssetForTrait(config, layerKey, traitValue) ==
    LET layer == Find(config.layers,
                     {i \in 1..Len(config.layers) : config.layers[i].key = layerKey})
    IN  IF layer = NONE THEN NONE
        ELSE LET trait == Find(The(layer).traits,
                               {i \in 1..Len(The(layer).traits) :
                                   The(layer).traits[i].name = traitValue})
             IN  IF trait = NONE THEN NONE ELSE TraitAsset(The(trait))

getAssetPath(assetsDir, layerKey, assetFilename) ==
    PathJoin(assetsDir, layerKey, assetFilename)

\* The loop of extractLayerAssets from the k-th key of LAYER_ORDER on: a layer
\* without attribute or without filename is skipped with a warning
RECURSIVE ExtractAssetsFrom(_, _, _, _)
ExtractAssetsFrom(k, metadata, config, assetsDir) ==
    IF k > Len(LAYER_ORDER) THEN <<>>
    ELSE LET layerKey == LAYER_ORDER[k]
             attr     == LayerAttribute(metadata, layerKey)
             rest     == ExtractAssetsFrom(k + 1, metadata, config, assetsDir)
         IN  IF attr = NONE THEN rest
             ELSE LET assetFilename ==
                          resolveAssetForTrait(config, layerKey, The(attr).value)
                  IN  IF assetFilename = NONE THEN rest
                      ELSE <<[layerKey |-> layerKey,
                              assetPath |-> getAssetPath(assetsDir, layerKey,
                                                         The(assetFilename))]>>
                           \o rest

extractLayerAssets(metadata, config, assetsDir) ==
    ExtractAssetsFrom(1, metadata, config, assetsDir)

\* The paths of an asset list that are not among the readable files
MissingPaths(assets, readable) ==
    LET missing == SelectSeq(assets, LAMBDA a : a.assetPath \notin readable)
    IN  [i \in 1..Len(missing) |-> missing[i].assetPath]

\* validateAssets of generateImage: { valid, missing }
validateAssetList(assets, readable) ==
    LET missing == MissingPaths(assets, readable)
    IN  [valid |-> Len(missing) = 0, missing |-> missing]

(* The generator that throws (generateNftImage) *)

\* sanitizeFilename on the trait names of the model, which are numerals:
\* lower-casing, replacing the runs of other characters and trimming hyphens
\* leave the digits of a numeral as they are
sanitizeFilename(name) == String(name)

\* resolveAssetPath: the path, or the error it throws
resolveAssetPath(assetsDir, layerKey, traitName, config) ==
    LET layer == Find(config.layers,
                     {i \in 1..Len(config.layers) : config.layers[i].key = layerKey})
    IN  IF layer = NONE
        THEN [threw |-> TRUE,
              error |-> [message |-> "Layer not found", names |-> <<layerKey>>]]
        ELSE LET trait == Find(The(layer).traits,
                               {i \in 1..Len(The(layer).traits) :
                                   The(layer).traits[i].name = traitName})
             IN  IF trait = NONE
                 THEN [threw |-> TRUE,
                       error |-> [message |-> "Trait not found",
                                  names |-> <<layerKey>>]]
                 ELSE LET filename ==
                              IF TraitAsset(The(trait)) # NONE
                              THEN The(TraitAsset(The(trait)))
                              ELSE sanitizeFilename(traitName) \o <<".png">>
                      IN  [threw |-> FALSE,
                           assetPath |-> PathJoin(assetsDir, layerKey, filename)]

\* The loop of extractLayerInfo from the k-th key of LAYER_ORDER on, layers
\* being the list pushed so far: a layer without attribute is skipped with a
\* warning, the first error of resolveAssetPath leaves the loop
RECURSIVE ExtractInfoFrom(_, _, _, _, _)
ExtractInfoFrom(k, soFar, metadata, config, assetsDir) ==
    IF k > Len(LAYER_ORDER) THEN [threw |-> FALSE, layers |-> soFar]
    ELSE LET layerKey == LAYER_ORDER[k]
             attr     == LayerAttribute(metadata, layerKey)
         IN  IF attr = NONE
             THEN ExtractInfoFrom(k + 1, soFar, metadata, config, assetsDir)
             ELSE LET resolved == resolveAssetPath(assetsDir, layerKey,
                                                   The(attr).value, config)
                  IN  IF resolved.threw
                      THEN [threw |-> TRUE, error |-> resolved.error]
                      ELSE ExtractInfoFrom(
                               k + 1,
                               Append(soFar, [layerKey |-> layerKey,
                                              traitName |-> The(attr).value,
                                              assetPath |-> resolved.assetPath]),
                               metadata, config, assetsDir)

extractLayerInfo(metadata, config, assetsDir) ==
    ExtractInfoFrom(1, <<>>, metadata, config, assetsDir)

\* validateAssets of generateNftImage: the error it throws, if any; the
\* message lists the layer key and the path of every missing file
validateAssets(infos, existing) ==
    LET missing == SelectSeq(infos, LAMBDA l : l.assetPath \notin existing)
    IN  IF Len(missing) > 0
        THEN Some([message |-> "Missing asset files",
                   names |-> [i \in 1..Len(missing) |-> missing[i].layerKey]])
        ELSE NONE

\* The transparent canvas compositeLayers of generateNftImage starts with
CANVAS == [layerKey |-> "canvas", assetPath |-> <<>>]

\* The buffer of a layer resized to the canvas
Resized(layer) == [layerKey |-> layer.layerKey, assetPath |-> layer.assetPath]

Reverse(array) == [i \in 1..Len(array) |-> array[Len(array) + 1 - i]]

\* Mutant: the inputs are laid over the base from the last to the first
Composite_Reversed(base, inputs) == <<base>> \o Reverse(inputs)

\* base.composite(inputs): the inputs are laid over the base in array order
Composite(base, inputs) == <<base>> \o inputs

-----------------------------------------------------------------------------
(* Image generators: inputs *)

\* `${idStr}.json` in the metadata directory
MetadataName(nftId) == pad3(nftId) \o <<".json">>

\* The metadata directories of the model hold at most MaxFiles files
MaxFiles == 2

\* The metadata of a generated record
GeneratedMetadata ==
    LET config    == ReadConfig("metaagen_config")
        blueprint == [id |-> 1, station |-> config.hero_journey.stations[1],
                      archetype |-> "bull"]
    IN  buildMetadataJson(
            buildGeneratedNft(blueprint, config, createRng(DEFAULT_SEED), 1).nft,
            config)

\* The metadata with the value of the attribute of layer name traitType set
WithValue(metadata, traitType, value) ==
    [metadata EXCEPT !.attributes =
        [i \in 1..Len(metadata.attributes) |->
            IF metadata.attributes[i].trait_type = traitType
            THEN [metadata.attributes[i] EXCEPT !.value = value]
            ELSE metadata.attributes[i]]]

\* The metadata without the attributes whose names are in traitTypes
Without(metadata, traitTypes) ==
    [metadata EXCEPT !.attributes =
        SelectSeq(metadata.attributes, LAMBDA a : a.trait_type \notin traitTypes)]

\* The record whose trait in the l-th layer of the configuration is the l-th
RECURSIVE Numbered(_, _)
Numbered(metadata, l) ==
    IF l = 0 THEN metadata
    ELSE WithValue(Numbered(metadata, l - 1), LAYER_NAMES[l], l)

\* A trait name no layer of the configuration holds
UNKNOWN_TRAIT == TRAIT_COUNT + 1

\* The metadata files of the model
MetadataFiles ==
    LET generated == Numbered(GeneratedMetadata, LAYER_COUNT)
    IN  [ generated    |-> generated,
          reversed     |-> [generated EXCEPT !.attributes = Reverse(@)],
          unknown_eyes |-> WithValue(generated, "Eyes", UNKNOWN_TRAIT),
          unknown_two  |-> WithValue(WithValue(generated, "Eyes", UNKNOWN_TRAIT),
                                     "Mouth", UNKNOWN_TRAIT),
          no_aura      |-> Without(generated, {"Aura"}),
          no_layers    |-> Without(generated,
                                   {LAYER_NAMES[l] : l \in 1..LAYER_COUNT}),
          no_override  |-> WithValue(generated, "Body", TRAIT_COUNT) ]

\* The directory that holds the files `${pad3(k)}.json`, k in ids, with the
\* metadata that content names
Directory(ids, content) ==
    [name \in {MetadataName(k) : k \in ids} |->
        MetadataFiles[content[CHOOSE k \in ids : MetadataName(k) = name]]]

MetadataDirs ==
    UNION {{Directory(ids, content) : content \in [ids -> DOMAIN MetadataFiles]} :
           ids \in SUBSET (1..MaxFiles)}

\* One file for every trait of the configuration
AllAssetFiles ==
    UNION {{resolveAssetPath(ASSETS_DIR, LAYER_KEYS[l], j,
                             ReadConfig("metaagen_config")).assetPath :
            j \in 1..TRAIT_COUNT} : l \in 1..LAYER_COUNT}

\* The files of two traits of the numbered record are not there
MISSING_FILES ==
    {PathJoin(ASSETS_DIR, "background", <<"asset-", "1", ".png">>),
     PathJoin(ASSETS_DIR, "aura", <<"asset-", "7", ".png">>)}

AssetDirs == {AllAssetFiles, AllAssetFiles \ MISSING_FILES}

ImageConfigPaths == {"metaagen_config", "six_layers"}

-----------------------------------------------------------------------------
(* Image generators: the batches *)

GENERATE_IMAGE == "generateImage"
GENERATE_NFT_IMAGE == "generateNftImage"

\* An error object: its message and the names the message lists
Error(message, names) == [message |-> message, names |-> names]

\* The numbers k whose file `${pad3(k)}.json` is in the directory
MetadataIds(dir) == {k \in 1..(MaxFiles + 1) : MetadataName(k) \in DOMAIN dir}

\* files.filter(f => f.endsWith(".json")).sort(): the names of the model are
\* numerals padded to three digits, which sort as their numbers do
RECURSIVE SortedNames(_)
SortedNames(ids) ==
    IF ids = {} THEN <<>>
    ELSE LET least == CHOOSE k \in ids : \A m \in ids : k <= m
         IN  <<MetadataName(least)>> \o SortedNames(ids \ {least})

\* jsonFile.replace(".json", ".png")
ImageFilename(jsonFile) ==
    [i \in 1..Len(jsonFile) |-> IF jsonFile[i] = ".json" THEN ".png" ELSE jsonFile[i]]

\* options.endId || 333, for a caller that passes the number of the last
\* metadata file (0 when there is none)
EndId(dir) ==
    IF MetadataIds(dir) = {} THEN COLLECTION_SIZE
    ELSE CHOOSE k \in MetadataIds(dir) : \A m \in MetadataIds(dir) : m <= k

\* The locals of the image function when no image is generated
NoImage ==
    /\ layerList' = <<>>
    /\ pending' = {}
    /\ overlays' = <<>>
    /\ lastCompleted' = 0
    /\ imageBuffer' = <<>>

(* generateAllImages around generateImage *)

\* generateAllImages up to its first await: loadConfig
GenerateAllImages ==
    /\ generator = GENERATE_IMAGE
    /\ ipc = "call"
    /\ LET loaded == loadConfig(configPath)
       IN  IF loaded.threw
           THEN /\ ipc' = "rejected"
                /\ rejection' = Some(Error(loaded.error, <<>>))
           ELSE /\ ipc' = "mkdir"
                /\ UNCHANGED rejection
    /\ UNCHANGED <<configPath, generatorVars, generator, metadataDir, assetFiles,
                   jsonFiles, cursor, layerList, pending, overlays, lastCompleted, imageBuffer,
                   images, successCount, errorCount, caught>>

\* await fs.promises.mkdir(outputDir, { recursive: true })
OutputDirMade ==
    /\ generator = GENERATE_IMAGE
    /\ ipc = "mkdir"
    /\ ipc' = "readdir"
    /\ UNCHANGED <<configPath, generatorVars, generator, metadataDir, assetFiles,
                   jsonFiles, cursor, layerList, pending, overlays, lastCompleted, imageBuffer,
                   images, successCount, errorCount, caught, rejection>>

\* await fs.promises.readdir(metadataDir), then the loop up to readFile
ReaddirDone ==
    /\ generator = GENERATE_IMAGE
    /\ ipc = "readdir"
    /\ LET sorted == SortedNames(MetadataIds(metadataDir))
       IN  IF Len(sorted) = 0
           THEN /\ ipc' = "rejected"
                /\ rejection' = Some(Error("No metadata JSON files found", <<>>))
                /\ UNCHANGED <<jsonFiles, cursor>>
           ELSE /\ ipc' = "readFile"
                /\ jsonFiles' = sorted
                /\ cursor' = 1
                /\ UNCHANGED rejection
    /\ UNCHANGED <<configPath, generatorVars, generator, metadataDir, assetFiles,
                   layerList, pending, overlays, lastCompleted, imageBuffer,
                   images, successCount, errorCount, caught>>

\* The catch block of the loop, then the next file: the error is counted and
\* logged, and the batch goes on
CatchAndGoOn(err) ==
    /\ errorCount' = errorCount + 1
    /\ caught' = Append(caught, [file |-> ImageFilename(jsonFiles[cursor]), error |-> err])
    /\ cursor' = cursor + 1
    /\ ipc' = IF cursor = Len(jsonFiles) THEN "resolved" ELSE "readFile"
    /\ NoImage
    /\ UNCHANGED <<images, successCount>>

\* await fs.promises.readFile(metadataPath), JSON.parse, extractLayerAssets
ReadFileDone ==
    /\ generator = GENERATE_IMAGE
    /\ ipc = "readFile"
    /\ LET metadata == metadataDir[jsonFiles[cursor]]
           assets   == extractLayerAssets(metadata, loadConfig(configPath).config,
                                          ASSETS_DIR)
       IN  IF Len(assets) = 0
           THEN CatchAndGoOn(Error("No assets found for metadata", <<>>))
           ELSE /\ ipc' = "access"
                /\ layerList' = assets
                /\ UNCHANGED <<cursor, pending, overlays, lastCompleted, imageBuffer, images,
                               successCount, errorCount, caught>>
    /\ UNCHANGED <<configPath, generatorVars, generator, metadataDir, assetFiles,
                   jsonFiles, rejection>>

\* validateAssets has answered; compositeLayers starts every resize
AccessDone ==
    /\ generator = GENERATE_IMAGE
    /\ ipc = "access"
    /\ LET validation == validateAssetList(layerList, assetFiles)
       IN  IF ~validation.valid
           THEN CatchAndGoOn(Error("Missing asset files", validation.missing))
           ELSE /\ ipc' = IF Len(layerList) = 1 THEN "toBuffer" ELSE "resize"
                /\ pending' = 1..(Len(layerList) - 1)
                /\ UNCHANGED <<cursor, layerList, overlays, lastCompleted, imageBuffer, images,
                               successCount, errorCount, caught>>
    /\ UNCHANGED <<configPath, generatorVars, generator, metadataDir, assetFiles,
                   jsonFiles, rejection>>

\* The resize of assets.slice(1)[i - 1] completes: Promise.all stores the
\* value at the position of its promise
ResizeDone(i) ==
    /\ generator = GENERATE_IMAGE
    /\ ipc = "resize"
    /\ i \in pending
    /\ pending' = pending \ {i}
    /\ overlays' = (i :> Resized(layerList[i + 1])) @@ overlays
    /\ lastCompleted' = i
    /\ ipc' = IF pending = {i} THEN "toBuffer" ELSE "resize"
    /\ UNCHANGED <<configPath, generatorVars, generator, metadataDir, assetFiles,
                   jsonFiles, cursor, layerList, imageBuffer, images, successCount,
                   errorCount, caught, rejection>>

\* composite.composite(overlays), await composite.png().toBuffer()
ToBufferDone ==
    /\ generator = GENERATE_IMAGE
    /\ ipc = "toBuffer"
    /\ imageBuffer' = Composite(Resized(layerList[1]),
                                [i \in 1..(Len(layerList) - 1) |-> overlays[i]])
    /\ ipc' = "writeFile"
    /\ UNCHANGED <<configPath, generatorVars, generator, metadataDir, assetFiles,
                   jsonFiles, cursor, layerList, pending, overlays, lastCompleted, images,
                   successCount, errorCount, caught, rejection>>

\* await fs.promises.writeFile(outputPath, imageBuffer), successCount++ and
\* the next file
WriteFileDone ==
    /\ generator = GENERATE_IMAGE
    /\ ipc = "writeFile"
    /\ images' = (ImageFilename(jsonFiles[cursor]) :> imageBuffer) @@ images
    /\ successCount' = successCount + 1
    /\ cursor' = cursor + 1
    /\ ipc' = IF cursor = Len(jsonFiles) THEN "resolved" ELSE "readFile"
    /\ NoImage
    /\ UNCHANGED <<configPath, generatorVars, generator, metadataDir, assetFiles,
                   jsonFiles, errorCount, caught, rejection>>

(* generateAllImages around generateNftImage *)

\* generateAllImages up to its first await
GenerateAllNftImages ==
    /\ generator = GENERATE_NFT_IMAGE
    /\ ipc = "call"
    /\ ipc' = "mkdir"
    /\ UNCHANGED <<configPath, generatorVars, generator, metadataDir, assetFiles,
                   jsonFiles, cursor, layerList, pending, overlays, lastCompleted, imageBuffer,
                   images, successCount, errorCount, caught, rejection>>

\* The catch block of the loop: the error is logged and thrown again
CatchAndThrow(nftId, err) ==
    /\ caught' = Append(caught, [file |-> String(nftId) \o <<".png">>, error |-> err])
    /\ rejection' = Some(err)
    /\ ipc' = "rejected"
    /\ NoImage

\* generateNftImage(nftId) up to its first await that waits for a resize:
\* the metadata is loaded, the layers are extracted and their files validated
StartNftImage(nftId) ==
    /\ cursor' = nftId
    /\ IF MetadataName(nftId) \notin DOMAIN metadataDir
       THEN CatchAndThrow(nftId, Error("Metadata not found", <<>>))
       ELSE LET metadata  == metadataDir[MetadataName(nftId)]
                extracted == extractLayerInfo(metadata, ReadConfig(configPath),
                                              ASSETS_DIR)
            IN  IF extracted.threw
                THEN CatchAndThrow(nftId, extracted.error)
                ELSE LET invalid == validateAssets(extracted.layers, assetFiles)
                     IN  IF invalid # NONE
                         THEN CatchAndThrow(nftId, The(invalid))
                         ELSE /\ layerList' = extracted.layers
                              /\ ipc' = IF Len(extracted.layers) = 0
                                        THEN "toFile" ELSE "resize"
                              /\ imageBuffer' = IF Len(extracted.layers) = 0
                                                THEN <<CANVAS>> ELSE <<>>
                              /\ pending' = {}
                              /\ overlays' = <<>>
                              /\ lastCompleted' = 0
                              /\ UNCHANGED <<caught, rejection>>

\* await fs.promises.mkdir(genConfig.outputDir, { recursive: true }), then
\* the loop from startId
NftOutputDirMade ==
    /\ generator = GENERATE_NFT_IMAGE
    /\ ipc = "mkdir"
    /\ StartNftImage(1)
    /\ UNCHANGED <<configPath, generatorVars, generator, metadataDir, assetFiles,
                   jsonFiles, images, successCount, errorCount>>

\* The resize of the next layer completes: its buffer is pushed, and after
\* the last one the inputs are laid over the canvas
NftResizeDone ==
    /\ generator = GENERATE_NFT_IMAGE
    /\ ipc = "resize"
    /\ LET i      == Len(overlays) + 1
           inputs == Append(overlays, Resized(layerList[i]))
       IN  /\ overlays' = inputs
           /\ lastCompleted' = i
           /\ IF i = Len(layerList)
              THEN /\ ipc' = "toFile"
                   /\ imageBuffer' = Composite(CANVAS, inputs)
              ELSE UNCHANGED <<ipc, imageBuffer>>
    /\ UNCHANGED <<configPath, generatorVars, generator, metadataDir, assetFiles,
                   jsonFiles, cursor, layerList, pending, images, successCount, errorCount,
                   caught, rejection>>

\* await image.png().toFile(outputPath), then the next id
ToFileDone ==
    /\ generator = GENERATE_NFT_IMAGE
    /\ ipc = "toFile"
    /\ images' = ((String(cursor) \o <<".png">>) :> imageBuffer) @@ images
    /\ IF cursor = EndId(metadataDir)
       THEN /\ ipc' = "resolved"
            /\ NoImage
            /\ UNCHANGED <<cursor, caught, rejection>>
       ELSE StartNftImage(cursor + 1)
    /\ UNCHANGED <<configPath, generatorVars, generator, metadataDir, assetFiles,
                   jsonFiles, successCount, errorCount>>

-----------------------------------------------------------------------------
(* Specifications *)

\* The image generator before its batch is called
ImageStart ==
    /\ jsonFiles = <<>>
    /\ cursor = 0
    /\ layerList = <<>>
    /\ pending = {}
    /\ overlays = <<>>
    /\ lastCompleted = 0
    /\ imageBuffer = <<>>
    /\ images = <<>>
    /\ successCount = 0
    /\ errorCount = 0
    /\ caught = <<>>
    /\ rejection = NONE

\* No image generator is run
ImageIdle ==
    /\ generator = "none"
    /\ metadataDir = <<>>
    /\ assetFiles = {}
    /\ ipc = "idle"
    /\ ImageStart

GeneratorIdle(S) ==
    /\ runs = S
    /\ seq = [r \in S |-> <<>>]
    /\ rng = [r \in S |-> NO_RNG]
    /\ blueprints = [r \in S |-> <<>>]
    /\ pos = [r \in S |-> 0]
    /\ nft = [r \in S |-> NO_NFT]
    /\ mintTimestamp = [r \in S |-> 0]
    /\ nfts = [r \in S |-> <<>>]
    /\ files = [r \in S |-> <<>>]
    /\ error = [r \in S |-> NO_ERROR]

Idle(S) == GeneratorIdle(S) /\ ImageIdle

\* One run of generateCollection
Init ==
    /\ configPath \in ConfigPaths
    /\ seedArg \in Seeds
    /\ envSeed \in IF seedArg = <<>> THEN {<<>>, ENV_SEED} ELSE {<<>>}
    /\ dist \in Distributions
    /\ seeds = [r \in {1} |-> <<>>]
    /\ Idle({1})
    /\ pc = [r \in {1} |-> "call"]

Next == \E r \in runs : Generate(r) \/ MkdirDone(r) \/ WriteDone(r)

Spec == Init /\ [][Next]_vars

\* One run of generateCollection with the allocation of the program
FairInit ==
    /\ configPath \in {"metaagen_config", "all_mythic", "tier_gaps", "six_tiers"}
    /\ seedArg \in Seeds
    /\ envSeed \in IF seedArg = <<>> THEN {<<>>, ENV_SEED} ELSE {<<>>}
    /\ dist = STATION_DISTRIBUTION
    /\ seeds = [r \in {1} |-> <<>>]
    /\ Idle({1})
    /\ pc = [r \in {1} |-> "call"]

\* The run r goes on: it is called, or the promise it awaits (mkdir,
\* writeFile) is settled and the loop resumes. Every step of Generate,
\* MkdirDone and WriteDone is such a step, and no other step of Next is.
Resume(r) ==
    /\ pc[r] \in {"call", "mkdir", "write"}
    /\ pc' \in [runs -> {"mkdir", "write", "done", "failed"}]
    /\ pos' \in [runs -> {pos[r], pos[r] + 1}]
    /\ <<pc'[r], pos'[r]>> # <<pc[r], pos[r]>>

\* One run of generateCollection whose file system answers: the event loop
\* settles the promises of mkdir and writeFile, so a run that can go on does
FairSpec ==
    /\ FairInit
    /\ [][Next]_vars
    /\ WF_<<pc, pos>>(Resume(1))

\* The awaits a run has reached
Progress(r) == IF pc[r] = "call" THEN 0 ELSE pos[r] + 1

\* The promise run r awaits is settled while the other runs are at most
\* MaxLead awaits behind
MayResume(r) ==
    \A q \in runs \ {r} :
        pc[q] \in {"done", "failed"} \/ Progress(r) - Progress(q) < MaxLead

\* Two runs of generateCollection in one process, with the same arguments
ConcurrentInit ==
    /\ configPath = "metaagen_config"
    /\ seedArg = <<>>
    /\ envSeed = <<>>
    /\ dist = STATION_DISTRIBUTION
    /\ seeds = [r \in {1, 2} |-> <<>>]
    /\ Idle({1, 2})
    /\ pc = [r \in {1, 2} |-> "call"]

\* The runs are interleaved at their awaits
ConcurrentNext ==
    \E r \in runs :
        MayResume(r) /\ (Generate(r) \/ MkdirDone(r) \/ WriteDone(r))

ConcurrentSpec == ConcurrentInit /\ [][ConcurrentNext]_vars

\* Two independent runs of the pipeline with the same seed, configuration and
\* distribution
PipelineInit ==
    /\ configPath \in PipelineConfigPaths
    /\ seedArg \in Seeds
    /\ envSeed = <<>>
    /\ dist \in SmallDistributions
    /\ seeds = [r \in {1, 2} |-> <<>>]
    /\ Idle({1, 2})
    /\ pc = [r \in {1, 2} |-> "new"]

PipelineNext ==
    \E r \in runs :
        CallCreateRng(r) \/ CallBuildNftBlueprints(r) \/ CallBuildGeneratedNft(r)

PipelineSpec == PipelineInit /\ [][PipelineNext]_vars

\* Two closures with seeds of their own
StreamInit ==
    /\ configPath = "metaagen_config"
    /\ seedArg = <<>>
    /\ envSeed = <<>>
    /\ dist = STATION_DISTRIBUTION
    /\ seeds \in [{1, 2} -> StreamSeeds]
    /\ Idle({1, 2})
    /\ pc = [r \in {1, 2} |-> "new"]

StreamNext == \E r \in runs : CreateStream(r) \/ Draw(r)

StreamSpec == StreamInit /\ [][StreamNext]_vars

\* One batch of one of the image generators over a metadata directory
ImageInit ==
    /\ configPath \in ImageConfigPaths
    /\ seedArg = <<>>
    /\ envSeed = <<>>
    /\ dist = STATION_DISTRIBUTION
    /\ seeds = [r \in {1} |-> <<>>]
    /\ GeneratorIdle({1})
    /\ pc = [r \in {1} |-> "idle"]
    /\ generator \in {GENERATE_IMAGE, GENERATE_NFT_IMAGE}
    /\ metadataDir \in MetadataDirs
    /\ assetFiles \in AssetDirs
    /\ ipc = "call"
    /\ ImageStart

ImageNext ==
    \/ GenerateAllImages
    \/ OutputDirMade
    \/ ReaddirDone
    \/ ReadFileDone
    \/ AccessDone
    \/ \E i \in pending : ResizeDone(i)
    \/ ToBufferDone
    \/ WriteFileDone
    \/ GenerateAllNftImages
    \/ NftOutputDirMade
    \/ NftResizeDone
    \/ ToFileDone

ImageSpec == ImageInit /\ [][ImageNext]_vars

-----------------------------------------------------------------------------
(* Claims *)

\* buildNftBlueprints has just returned its array to generateCollection
Built(r) == pc[r] = "mkdir"

\* buildGeneratedNft has returned a record
Generated(r) == pos[r] > 0

CountOf(array, archetype) ==
    Cardinality({k \in 1..Len(array) : array[k].archetype = archetype})

SameRecord(a, b) ==
    /\ a.id = b.id
    /\ a.station = b.station
    /\ a.archetype = b.archetype
    /\ a.traits = b.traits
    /\ a.totalScore = b.totalScore
    /\ a.tier = b.tier
    /\ a.inscriptionTag = b.inscriptionTag

\* C1: two runs of the pipeline with the same seed, configuration and
\* distribution produce, record for record, the same id, station, archetype,
\* traits (values, categories, scores), total score, tier and inscription tag;
\* they build the same blueprints and the same number of records once both
\* have ended.  The mint timestamp is not compared.
C1_Determinism ==
    /\ \A k \in 1..Len(nfts[1]) :
          k <= Len(nfts[2]) => SameRecord(nfts[1][k], nfts[2][k])
    /\ (pc[1] \in {"blueprints", "done"} /\ pc[2] \in {"blueprints", "done"})
          => blueprints[1] = blueprints[2]
    /\ (pc[1] \in {"done", "failed"} /\ pc[2] \in {"done", "failed"})
          => (pc[1] = pc[2] /\ Len(nfts[1]) = Len(nfts[2]))

C1_Witness ==
    /\ pc[1] = "done" /\ pc[2] = "done"
    /\ Len(nfts[1]) >= 3 /\ Len(nfts[2]) >= 3
    /\ mintTimestamp[1] # mintTimestamp[2]
    /\ nfts[1][1].inscriptionTag # nfts[1][2].inscriptionTag

\* C2: buildNftBlueprints over the shipped distribution returns 333
\* blueprints, the blueprint at position k (1-based) has id k, and so the ids
\* are exactly 1..333.
C2_IdsArePositions ==
    \A r \in runs : Built(r) =>
        /\ Len(blueprints[r]) = 333
        /\ \A k \in 1..Len(blueprints[r]) : blueprints[r][k].id = k
        /\ {blueprints[r][k].id : k \in 1..Len(blueprints[r])} = 1..333

\* The shuffle has moved the blueprints: the first one is not of station 1.
C2_Witness ==
    \E r \in runs : /\ Built(r)
                    /\ blueprints[r][1].station.id # 1
                    /\ blueprints[r][333].station.id # 12

\* C3: for every group of the distribution, getArchetypeCounts returns the
\* hybrid override (or 0), the bulls as the rounding (halves up) of
\* (count - hybrids) * bullRatio and the bears as the rest, so the three
\* counts sum to the group's count; the 12 counts sum to 333.
C3_AllocationExact ==
    dist = STATION_DISTRIBUTION =>
    /\ Len(dist) = 12
    /\ SumSeq([k \in 1..Len(dist) |-> dist[k].count]) = 333
    /\ \A k \in 1..Len(dist) :
          LET c == getArchetypeCounts(dist[k])
              h == IF dist[k].hybridCount = NONE THEN 0
                   ELSE The(dist[k].hybridCount)
              x == (dist[k].count - h) * dist[k].bullRatio
          IN  /\ c.hybrids = h
              /\ 100 * c.bulls <= x + 50
              /\ x + 50 < 100 * c.bulls + 100
              /\ c.bears = dist[k].count - h - c.bulls
              /\ c.hybrids + c.bulls + c.bears = dist[k].count
              /\ \A r \in runs : Built(r) =>
                    Cardinality({i \in 1..Len(blueprints[r]) :
                        blueprints[r][i].station.id = dist[k].stationId})
                      = dist[k].count

\* The rounding is exercised: station 9 holds 27 members, 14 of them Bulls.
C3_Witness ==
    \E r \in runs :
        /\ Built(r)
        /\ getArchetypeCounts(dist[9]) = [bulls |-> 14, bears |-> 13, hybrids |-> 0]
        /\ getArchetypeCounts(dist[8]) = [bulls |-> 13, bears |-> 15, hybrids |-> 1]

\* C4: exactly one blueprint of the collection is a Hybrid, and it belongs to
\* station 8.
C4_OneHybridAtStation8 ==
    \A r \in runs : Built(r) =>
        /\ CountOf(blueprints[r], "Hybrid") = 1
        /\ \A k \in 1..Len(blueprints[r]) :
              blueprints[r][k].archetype = "Hybrid"
                 => blueprints[r][k].station.id = 8

\* The shuffle has moved the Hybrid away from its position before the shuffle.
C4_Witness ==
    \E r \in runs :
        /\ Built(r)
        /\ blueprints[r][197].archetype # "Hybrid"
        /\ \E k \in 1..Len(blueprints[r]) : blueprints[r][k].archetype = "Hybrid"

\* C5 (as documented): the collection holds 166 Bulls, 166 Bears and 1 Hybrid.
C5_Documented166 ==
    \A r \in runs : Built(r) =>
        /\ CountOf(blueprints[r], "Bull") = 166
        /\ CountOf(blueprints[r], "Bear") = 166
        /\ CountOf(blueprints[r], "Hybrid") = 1

\* C6: the total score of a generated record is the sum of the scores of its
\* 7 traits, and the tier stored in the record contains the total score.
C6_ScoreAndTier ==
    \A r \in runs : Generated(r) =>
        LET n == nft[r]
        IN  /\ Len(n.traits) = 7
            /\ n.totalScore = n.traits[1].score + n.traits[2].score
                              + n.traits[3].score + n.traits[4].score
                              + n.traits[5].score + n.traits[6].score
                              + n.traits[7].score
            /\ n.tier.min <= n.totalScore
            /\ n.totalScore <= n.tier.max

\* A record of a tier other than the first, with traits of different scores
C6_Witness ==
    \E r \in runs :
        /\ Generated(r)
        /\ nft[r].tier.tier = 5
        /\ nft[r].traits[1].score # nft[r].traits[2].score

\* C7: with the documented weights (CHAOS 7, THRESHOLD 12, ORDEAL_REWARD 21,
\* MYTHIC 42) the total score of a generated record lies in 49..294, and
\* between the first tier's min and the last tier's max.
C7_ScoreBounds ==
    \A r \in runs : Generated(r) =>
        LET n     == nft[r]
            tiers == ReadConfig(configPath).scoring.tier_thresholds
        IN  /\ ReadConfig(configPath).scoring.categories
                 = [CHAOS |-> 7, THRESHOLD |-> 12, ORDEAL_REWARD |-> 21, MYTHIC |-> 42]
            /\ 49 <= n.totalScore /\ n.totalScore <= 294
            /\ tiers[1].min <= n.totalScore
            /\ n.totalScore <= tiers[Len(tiers)].max

\* The upper bound is met
C7_Witness == \E r \in runs : Generated(r) /\ nft[r].totalScore = 294

\* The total scores of 7 traits, c[i] of them of the i-th category
ProducibleScores ==
    {7 * c[1] + 12 * c[2] + 21 * c[3] + 42 * c[4] :
        c \in {c \in [1..4 -> 0..7] : c[1] + c[2] + c[3] + c[4] = 7}}

TiersHolding(tiers, score) ==
    {k \in 1..Len(tiers) : tiers[k].min <= score /\ score <= tiers[k].max}

\* C8: the documented tier table is numbered 1..7, each tier starts where the
\* previous one ends (no gap, no overlap), tier 1 starts at or below 7 * 7 and
\* tier 7 ends at or above 7 * 42; every sum of 7 category weights, and so the
\* score of every record generated under this table, lies in exactly one tier.
C8_TierCoverage ==
    LET T == TIER_THRESHOLDS
    IN  /\ [k \in 1..Len(T) |-> <<T[k].min, T[k].max>>]
             = << <<7, 49>>, <<50, 63>>, <<64, 77>>, <<78, 98>>, <<99, 140>>,
                  <<141, 210>>, <<211, 294>> >>
        /\ \A k \in 1..Len(T) : T[k].tier = k
        /\ \A k \in 2..Len(T) : T[k].min = T[k - 1].max + 1
        /\ T[1].min <= 7 * 7
        /\ T[Len(T)].max >= 7 * 42
        /\ \A s \in ProducibleScores : Cardinality(TiersHolding(T, s)) = 1
        /\ \A r \in runs :
              (Generated(r) /\ ReadConfig(configPath).scoring.tier_thresholds = T)
                 => /\ nft[r].totalScore \in ProducibleScores
                    /\ TiersHolding(T, nft[r].totalScore) = {nft[r].tier.tier}

\* A record of the second tier under the documented table
C8_Witness ==
    \E r \in runs :
        /\ Generated(r)
        /\ configPath = "metaagen_config"
        /\ nft[r].tier.name = "Uncommon"

\* C9: every inscription tag has exactly 4 characters, each of them a member
\* of INSCRIPTION_CHARS, and none of them I, O, 0 or 1.
C9_TagShape ==
    \A r \in runs : Generated(r) =>
        LET tag == nft[r].inscriptionTag
        IN  /\ Len(tag) = 4
            /\ \A i \in 1..Len(tag) :
                  /\ \E k \in 1..Len(INSCRIPTION_CHARS) : tag[i] = INSCRIPTION_CHARS[k]
                  /\ tag[i] \notin {"I", "O", "0", "1"}

\* A tag that holds the last symbol of the alphabet
C9_Witness ==
    \E r \in runs :
        /\ Generated(r)
        /\ \E i \in 1..4 : nft[r].inscriptionTag[i] = "9"

LETTERS ==
    {"A", "B", "C", "D", "E", "F", "G", "H", "I", "J", "K", "L", "M", "N", "O",
     "P", "Q", "R", "S", "T", "U", "V", "W", "X", "Y", "Z"}

\* The alphabet has n symbols, without repetition: the letters A-Z without the
\* ambiguous I and O, and the digits 2-9.
AlphabetIs(n) ==
    /\ Len(INSCRIPTION_CHARS) = n
    /\ Cardinality({INSCRIPTION_CHARS[k] : k \in 1..Len(INSCRIPTION_CHARS)}) = n
    /\ {INSCRIPTION_CHARS[k] : k \in 1..Len(INSCRIPTION_CHARS)}
         = (LETTERS \ {"I", "O"}) \cup {"2", "3", "4", "5", "6", "7", "8", "9"}

RECURSIVE Iterate(_, _)
Iterate(r, k) == IF k = 0 THEN r ELSE Iterate(RngNext(r), k - 1)

\* In a step that builds a record, the i-th character of the tag is the symbol
\* at index floor(draw * n) for the (7 + i)-th draw of the step.
TagIndexIs(n) ==
    \A r \in runs : pos'[r] = pos[r] + 1 =>
        /\ Len(nft'[r].inscriptionTag) = 4
        /\ \A i \in 1..4 :
              LET idx == FloorMul(Iterate(rng[r], 7 + i), n)
              IN  /\ idx < Len(INSCRIPTION_CHARS)
                  /\ nft'[r].inscriptionTag[i] = INSCRIPTION_CHARS[idx + 1]

\* C10 (as amended): the alphabet of generateTag has exactly 32 symbols, the
\* 24 letters A-Z without I and O and the 8 digits 2-9, and each draw selects
\* the symbol at index floor(draw * 32).
C10_Alphabet32 == [](\A r \in runs : Generated(r) => AlphabetIs(32)) /\ [][TagIndexIs(32)]_vars

\* A tag has been drawn from the alphabet
C10_Witness ==
    \E r \in runs :
        /\ Generated(r)
        /\ pos[r] >= 2
        /\ nft[r].inscriptionTag[1] = "A"
        /\ nft[r].inscriptionTag[4] = "2"

\* C10 (as claimed): the alphabet of generateTag has exactly 33 symbols.
C10_Original33 == \A r \in runs : Generated(r) => AlphabetIs(33)

\* The inscription tag written into a metadata file
TagOf(meta) ==
    LET i == CHOOSE i \in 1..Len(meta.attributes) :
                 meta.attributes[i].trait_type = "Inscription Tag"
    IN  meta.attributes[i].value

\* C11 (as documented): no two records of a generated collection carry the same
\* inscription tag, that is, the metadata files written by a run hold as many
\* different tags as there are files.
C11_UniqueTags ==
    \A r \in runs :
        Cardinality({TagOf(files[r][f]) : f \in DOMAIN files[r]})
           = Cardinality(DOMAIN files[r])

\* The draws of the shuffle of the 333 blueprints
SHUFFLE_DRAWS == COLLECTION_SIZE - 1

\* The draws of one record: one per layer, then one per character of the tag
RECORD_DRAWS == LAYER_COUNT + TAG_LENGTH

\* In a step that builds a record, the record is the one of the next id, its
\* l-th trait belongs to the l-th configured layer and is selected by the l-th
\* draw of the step, the i-th character of its tag by the (7 + i)-th draw, and
\* the step makes these 11 draws and no other.
RecordDrawsInOrder ==
    \A r \in runs : pos'[r] = pos[r] + 1 =>
        LET layers == ReadConfig(configPath).layers
        IN  /\ nft'[r].id = pos[r] + 1
            /\ nft'[r].id = blueprints[r][pos[r] + 1].id
            /\ Len(nft'[r].traits) = LAYER_COUNT
            /\ \A l \in 1..LAYER_COUNT :
                  /\ nft'[r].traits[l].layerKey = layers[l].key
                  /\ nft'[r].traits[l].value
                       = layers[l].traits[FloorMul(Iterate(rng[r], l),
                                                   Len(layers[l].traits)) + 1].name
            /\ \A i \in 1..TAG_LENGTH :
                  nft'[r].inscriptionTag[i]
                     = INSCRIPTION_CHARS[FloorMul(Iterate(rng[r], LAYER_COUNT + i),
                                                  Len(INSCRIPTION_CHARS)) + 1]
            /\ rng'[r] = Iterate(rng[r], RECORD_DRAWS)

\* C12: all stages of a generation run draw from one stream in a fixed order:
\* the 332 draws of the shuffle come before the first draw of a record; the
\* records are built in the order of their ids; each record takes its 7 layer
\* draws in the configured layer order, then its 4 tag draws; and the 11 draws
\* of record k come before every draw of record k + 1.
C12_DrawOrder ==
    /\ [](\A r \in runs :
            /\ Built(r) => (rng[r].calls = SHUFFLE_DRAWS /\ pos[r] = 0)
            /\ pc[r] \in {"write", "done"}
                  => rng[r].calls = SHUFFLE_DRAWS + RECORD_DRAWS * pos[r])
    /\ [][RecordDrawsInOrder]_vars

\* The second record has been built, after 332 + 22 draws
C12_Witness ==
    \E r \in runs :
        /\ pc[r] = "write"
        /\ pos[r] = 2
        /\ nft[r].id = 2
        /\ rng[r].calls = 354
        /\ nft[r].traits[1].value # nft[r].traits[2].value

\* The array after the passes i = N - 1, ..., k of a shuffle of array that
\* starts with the stream in state r0: pass i is the (N - i)-th draw of the
\* shuffle, and swaps the elements at the 0-based indices i and
\* floor(draw * (i + 1)).
RECURSIVE SwapsDownTo(_, _, _)
SwapsDownTo(array, r0, k) ==
    IF k > Len(array) - 1 THEN array
    ELSE LET prev == SwapsDownTo(array, r0, k + 1)
             j    == FloorMul(Iterate(r0, Len(array) - k), k + 1)
         IN  [prev EXCEPT ![k + 1] = prev[j + 1], ![j + 1] = prev[k + 1]]

\* The array handed to shuffleInPlace by buildNftBlueprints
Unshuffled == Expand(ReadConfig(configPath), dist, 1, <<>>).blueprints

\* C13: shuffleInPlace on an array of length N makes exactly N - 1 draws when
\* N >= 2 and none when N <= 1; for i from N - 1 down to 1 it draws once,
\* takes j = floor(draw * (i + 1)) and swaps the elements at i and j.
C13_ShuffleDraws ==
    \A r \in runs : (pc[r] \in {"blueprints", "done"} /\ pos[r] = 0) =>
        LET N  == Len(Unshuffled)
            r0 == createRng(seedArg)
            n  == IF N >= 2 THEN N - 1 ELSE 0
        IN  /\ rng[r].calls = n
            /\ rng[r] = Iterate(r0, n)
            /\ Len(blueprints[r]) = N
            /\ \A k \in 1..N :
                  LET e == SwapsDownTo(Unshuffled, r0, 1)[k]
                  IN  /\ blueprints[r][k].station = e.station
                      /\ blueprints[r][k].archetype = e.archetype

\* An array of 4 elements has been shuffled with 3 draws, and an element of
\* station 8 has come first.
C13_Witness ==
    \E r \in runs :
        /\ pc[r] = "blueprints" /\ pos[r] = 0
        /\ Len(blueprints[r]) = 4
        /\ rng[r].calls = 3
        /\ blueprints[r][1].station.id = 8

\* An array of one element has been shuffled with no draw
C13_WitnessNoDraw ==
    \E r \in runs : /\ pc[r] = "blueprints" /\ pos[r] = 0
                    /\ Len(blueprints[r]) = 1 /\ rng[r].calls = 0

\* The errors loadConfig throws
LOAD_ERRORS ==
    {"Expected 7 layers", "must have exactly 9 traits", "Missing scoring category",
     "Expected 7 tier thresholds", "Expected 12 hero journey stations"}

\* One of the cardinalities loadConfig requires is violated
BadCardinality(config) ==
    \/ Len(config.layers) # 7
    \/ \E l \in 1..Len(config.layers) : Len(config.layers[l].traits) # 9
    \/ ~({"CHAOS", "THRESHOLD", "ORDEAL_REWARD", "MYTHIC"}
            \subseteq DOMAIN config.scoring.categories)
    \/ Len(config.scoring.tier_thresholds) # 7
    \/ Len(config.hero_journey.stations) # 12

\* generateCollection has called loadConfig
Loaded(r) == pc[r] # "call"

\* C14: loadConfig throws unless the configuration has exactly 7 layers, 9
\* traits in every layer, the four scoring categories, 7 tier thresholds and 12
\* hero-journey stations; when one of these is violated no configuration is
\* returned, so the run fails with the error of loadConfig and nothing is
\* generated; otherwise the configuration is returned.
C14_LoadConfigCardinalities ==
    \A r \in runs : Loaded(r) =>
        IF BadCardinality(ReadConfig(configPath))
        THEN /\ loadConfig(configPath).threw
             /\ "config" \notin DOMAIN loadConfig(configPath)
             /\ pc[r] = "failed"
             /\ error[r] \in LOAD_ERRORS
             /\ blueprints[r] = <<>> /\ pos[r] = 0 /\ files[r] = <<>>
        ELSE /\ ~loadConfig(configPath).threw
             /\ loadConfig(configPath).config = ReadConfig(configPath)
             /\ error[r] \notin LOAD_ERRORS

\* A configuration with a layer of 8 traits has been refused
C14_Witness ==
    \E r \in runs :
        /\ pc[r] = "failed"
        /\ configPath = "eight_traits"
        /\ error[r] = "must have exactly 9 traits"

\* The least and the greatest of the weights of a configuration
MinWeight(config) ==
    LET w == config.scoring.categories
    IN  CHOOSE x \in {w[c] : c \in DOMAIN w} : \A c \in DOMAIN w : x <= w[c]

MaxWeight(config) ==
    LET w == config.scoring.categories
    IN  CHOOSE x \in {w[c] : c \in DOMAIN w} : \A c \in DOMAIN w : x >= w[c]

\* The tier table has a gap or an overlap between consecutive tiers, or does
\* not cover the scores from 7 * min weight to 7 * max weight.
MalformedCoverage(config) ==
    LET T == config.scoring.tier_thresholds
    IN  \/ \E k \in 2..Len(T) : T[k].min # T[k - 1].max + 1
        \/ T[1].min > 7 * MinWeight(config)
        \/ T[Len(T)].max < 7 * MaxWeight(config)

\* C15 (as specified): loadConfig throws for a configuration whose tier table
\* has a gap or an overlap or does not cover the achievable scores, so a run
\* with such a configuration fails with an error of loadConfig.
C15_CoverageRefused ==
    \A r \in runs :
        (Loaded(r) /\ MalformedCoverage(ReadConfig(configPath)))
           => /\ loadConfig(configPath).threw
              /\ pc[r] = "failed"
              /\ error[r] \in LOAD_ERRORS

\* C16 (as specified): every error of the configuration or of the allocation
\* is reported before any generation work: a run of generateCollection that
\* fails has made no draw from the stream and has written no metadata file.
C16_ErrorsBeforeWork ==
    \A r \in runs :
        pc[r] = "failed" => (rng[r].calls = 0 /\ files[r] = <<>>)

\* |bullRatio + bearRatio - (count - hybridCount) / count| > 0.01, with the
\* ratios in hundredths and both sides multiplied by 100 * count
RatiosOff(alloc) ==
    LET h == IF alloc.hybridCount = NONE THEN 0 ELSE The(alloc.hybridCount)
        x == (alloc.bullRatio + alloc.bearRatio) * alloc.count
                - 100 * (alloc.count - h)
    IN  x > alloc.count \/ (0 - x) > alloc.count

\* One of the four conditions validateStationDistribution reports
Invalid(d) ==
    \/ SumSeq([k \in 1..Len(d) |-> d[k].count]) # 333
    \/ \E k \in 1..Len(d) : d[k].stationId \notin 1..12
    \/ \E k, m \in 1..Len(d) : k # m /\ d[k].stationId = d[m].stationId
    \/ \E k \in 1..Len(d) : RatiosOff(d[k])

\* generateCollection has called validateStationDistribution
Validated(r) == Loaded(r) /\ ~loadConfig(configPath).threw

\* C17: validateStationDistribution returns valid = false with at least one
\* error exactly when the counts do not sum to 333, a station id is outside
\* 1..12, two groups share a station id or the ratios of a group are off by
\* more than 0.01, and valid = true with no error otherwise; a run then fails
\* exactly in the first case.  For the shipped distribution it returns valid =
\* true, total = 333 and no error.
C17_Validation ==
    \A r \in runs : Validated(r) =>
        LET v == ValidateDistribution(dist)
        IN  /\ v.valid <=> ~Invalid(dist)
            /\ v.valid <=> (Len(v.errors) = 0)
            /\ v.total = SumSeq([k \in 1..Len(dist) |-> dist[k].count])
            /\ Invalid(dist) <=> (/\ pc[r] = "failed"
                                  /\ error[r] = "Station distribution validation failed")
            /\ dist = STATION_DISTRIBUTION
                  => /\ validateStationDistribution
                          = [valid |-> TRUE, total |-> 333, errors |-> <<>>]
                     /\ v = validateStationDistribution

\* A distribution with a station id of 13 and a total of 334 has been refused
\* with two errors
C17_Witness ==
    \E r \in runs :
        /\ pc[r] = "failed"
        /\ error[r] = "Station distribution validation failed"
        /\ Len(ValidateDistribution(dist).errors) = 2

\* The k-th byte of a number below 2^31
Byte(x, k) == (x \div (256 ^ k)) % 256

\* (s * 1664525 + 1013904223) mod 2^32 for s given by its four bytes b (b[1]
\* the lowest), by the multiplication of the bytes with carries
LcgBytes(b) ==
    LET a(k) == Byte(1664525, k)
        c(k) == Byte(1013904223, k)
        t0 == b[1] * a(0) + c(0)
        t1 == b[1] * a(1) + b[2] * a(0) + c(1) + (t0 \div 256)
        t2 == b[1] * a(2) + b[2] * a(1) + b[3] * a(0) + c(2) + (t1 \div 256)
        t3 == b[1] * a(3) + b[2] * a(2) + b[3] * a(1) + b[4] * a(0) + c(3)
                + (t2 \div 256)
    IN  <<t0 % 256, t1 % 256, t2 % 256, t3 % 256>>

\* The state after n draws from the state with the bytes b
RECURSIVE LcgIterate(_, _)
LcgIterate(b, n) ==
    IF n = 0 THEN b
    ELSE IF n = 1 THEN LcgBytes(b)
    ELSE LET half == LcgIterate(b, n \div 2)
         IN  IF Len(half) = 4 THEN LcgIterate(half, n - (n \div 2)) ELSE half

BytesOf(r) == <<r.lo % 256, r.lo \div 256, r.hi % 256, r.hi \div 256>>

\* The sum of the character codes of the seed of the run, or 1 if it is 0
FoldedSeed ==
    LET sum == SumSeq(RngSeed(seedArg, envSeed))
    IN  IF sum = 0 THEN 1 ELSE sum

\* In a step that draws, the stream goes from its state (in the step that
\* creates it: from the folded seed) through as many applications of the
\* recurrence as the closure is called.
DrawsFollowRecurrence ==
    \A r \in runs : rng'[r] # rng[r] =>
        LET from == IF pc[r] = "call" THEN <<Byte(FoldedSeed, 0), Byte(FoldedSeed, 1),
                                             Byte(FoldedSeed, 2), Byte(FoldedSeed, 3)>>
                    ELSE BytesOf(rng[r])
            n    == IF pc[r] = "call" THEN rng'[r].calls
                    ELSE rng'[r].calls - rng[r].calls
        IN  /\ n >= 0
            /\ BytesOf(rng'[r]) = LcgIterate(from, n)

\* The state s = hi * 2^16 + lo is an integer of 0..2^32-1, so that the value
\* s / 2^32 is in [0, 1) and floor(value * n) is below n.
StateInRange(r) ==
    /\ r.hi \in 0..65535
    /\ r.lo \in 0..65535
    /\ \A n \in {9, 32, 333} : FloorMul(r, n) \in 0..(n - 1)

\* C18: createRng folds the seed into the sum of its character codes (1 if the
\* sum is 0); every call replaces the state s by
\* (s * 1664525 + 1013904223) mod 2^32 and returns s / 2^32; the state is
\* always an integer of 0..2^32-1 and every value v satisfies 0 <= v < 1.
C18_Lcg ==
    /\ [](\A r \in runs : StateInRange(rng[r]))
    /\ [][DrawsFollowRecurrence]_vars

\* A run has made all its draws: 332 of the shuffle and 11 for each of the 333
\* records, and the state has gone beyond 2^31
C18_Witness ==
    \E r \in runs :
        /\ pc[r] = "done"
        /\ rng[r].calls = 3995
        /\ rng[r].hi >= 32768

\* The sum of the character codes of a seed, or 1 if it is 0
Folded(seed) == IF SumSeq(seed) = 0 THEN 1 ELSE SumSeq(seed)

\* Both closures have returned their 10 values
BothDrawn == \A r \in runs : pc[r] = "done" /\ Len(seq[r]) = 10

\* C19 (as amended): two seeds whose sums of character codes differ (a sum of
\* 0 counting as 1) give sequences that differ in each of their first 10
\* values; two seeds with the same sum give the same 10 values, different
\* though the seeds may be.
C19_DifferentSums ==
    BothDrawn =>
        IF Folded(seeds[1]) # Folded(seeds[2])
        THEN \A k \in 1..10 : seq[1][k] # seq[2][k]
        ELSE seq[1] = seq[2]

\* The closures of the seeds "a" and "Q" have returned 10 values each
C19_Witness ==
    /\ BothDrawn
    /\ seeds[1] = <<97>> /\ seeds[2] = <<81>>
    /\ seq[1] # seq[2]

\* C19 (as claimed): any two different seeds give different sequences of 10
\* values.
C19_DifferentSeeds ==
    (BothDrawn /\ seeds[1] # seeds[2]) => seq[1] # seq[2]

\* The three decimal digits of an id below 1000
ThreeDigits(id) ==
    <<DIGITS[(id \div 100) + 1], DIGITS[((id \div 10) % 10) + 1],
      DIGITS[(id % 10) + 1]>>

\* C20 (as specified): every identifier written for a record is its id padded
\* with zeros to 3 digits: in the display name, in the name of the metadata
\* file, in the image reference and in properties.files.
C20_PaddedIdentifiers ==
    \A r \in runs : \A f \in DOMAIN files[r] :
        \E id \in 1..333 :
            LET meta == files[r][f]
            IN  /\ f = <<ThreeDigits(id), ".json">>
                /\ meta.name[3] = ThreeDigits(id)
                /\ meta.image[4] = ThreeDigits(id)
                /\ meta.image[5] = ".png"
                /\ meta.properties.files[1].uri = <<ThreeDigits(id), ".png">>

-----------------------------------------------------------------------------
(* Tiers, traits and draws *)

\* A tier table whose consecutive tiers share their limits
TIERS_OVERLAPPING ==
    << Tier(1, "Common", 7, 50), Tier(2, "Uncommon", 50, 64),
       Tier(3, "Rare", 64, 78), Tier(4, "Epic", 78, 99),
       Tier(5, "Legendary", 99, 141), Tier(6, "Mythic", 141, 211),
       Tier(7, "Divine", 211, 294) >>

\* The scores resolveTier is tried with: below, in and above every table
TriedScores == 0..300

\* The tier table holds every score from 7 times the least weight to 7 times
\* the greatest
CoversScores(config) ==
    \A score \in (7 * MinWeight(config))..(7 * MaxWeight(config)) :
        TiersHolding(config.scoring.tier_thresholds, score) # {}

\* C25: resolveTier returns the first tier of the table, in table order, that
\* holds the score, and throws exactly when no tier holds it; a run whose tier
\* table covers the scores of its weights never fails with that error, and
\* the tier of every record is the first that holds its score.
C25_ResolveTier ==
    \A r \in runs :
        /\ pc[r] = "call" =>
              \A tiers \in {TIER_THRESHOLDS, TIERS_WITH_GAPS, TIERS_OVERLAPPING} :
                  \A score \in TriedScores :
                      LET holding  == TiersHolding(tiers, score)
                          resolved == resolveTier(score, tiers)
                      IN  /\ resolved.threw <=> holding = {}
                          /\ ~resolved.threw =>
                                /\ resolved.tier.tier \in holding
                                /\ \A k \in holding : resolved.tier.tier <= k
        /\ error[r] = "outside tier thresholds"
              => ~CoversScores(ReadConfig(configPath))
        /\ Generated(r) =>
              LET holding == TiersHolding(ReadConfig(configPath).scoring.tier_thresholds,
                                          nft[r].totalScore)
              IN  /\ nft[r].tier.tier \in holding
                  /\ \A k \in holding : nft[r].tier.tier <= k

\* A run under a covering table has resolved the tier of all its records, the
\* last of them in the highest tier
C25_Witness ==
    \E r \in runs :
        /\ pc[r] = "done"
        /\ CoversScores(ReadConfig(configPath))
        /\ pos[r] = COLLECTION_SIZE
        /\ nft[r].tier.tier = TIER_COUNT

\* In a step that builds a record, generateTraitsForNft is called with the
\* stream in the state of the step: it returns 7 entries, the l-th for the l-th
\* configured layer, selected by the l-th draw at index floor(draw * 9), with
\* the layer, the name and the category of the trait and the weight of the
\* category as score; it leaves the stream 7 draws further, and the blueprints
\* and the configuration as they were.
TraitsDrawn ==
    \A r \in runs : pos'[r] = pos[r] + 1 =>
        LET config  == ReadConfig(configPath)
            drafted == generateTraitsForNft(config, rng[r])
        IN  /\ ~drafted.threw
            /\ Len(drafted.traits) = 7
            /\ \A l \in 1..7 :
                  LET layer == config.layers[l]
                      trait == layer.traits[FloorMul(Iterate(rng[r], l), 9) + 1]
                  IN  drafted.traits[l]
                        = [layerKey |-> layer.key, traitType |-> layer.name,
                           value |-> trait.name, category |-> trait.category,
                           score |-> config.scoring.categories[trait.category]]
            /\ drafted.rng = Iterate(rng[r], 7)
            /\ drafted.rng.calls = rng[r].calls + 7
            /\ nft'[r].traits = drafted.traits
            /\ UNCHANGED <<blueprints, configPath, dist>>

\* C26: generateTraitsForNft makes one draw per configured layer, in the
\* configured order, selects the trait at index floor(draw * 9), records layer,
\* name, category and the weight of the category, returns exactly 7 entries and
\* changes nothing but the position of the stream.
C26_TraitsPerLayer == [][TraitsDrawn]_vars

\* A record whose traits have different categories, the third one MYTHIC
C26_Witness ==
    \E r \in runs :
        /\ Generated(r)
        /\ Len(nft[r].traits) = LAYER_COUNT
        /\ nft[r].traits[3].category = "MYTHIC"
        /\ nft[r].traits[3].score = 42
        /\ nft[r].traits[1].category # "MYTHIC"

\* The configuration passes loadConfig, its tier table covers the scores of
\* its weights, and the allocation is valid
ValidInputs ==
    /\ ~loadConfig(configPath).threw
    /\ CoversScores(ReadConfig(configPath))
    /\ ValidateDistribution(dist).valid

TOTAL_DRAWS == SHUFFLE_DRAWS + RECORD_DRAWS * COLLECTION_SIZE

\* The run has completed after 3995 draws, with the 333 files written
Completed(r) ==
    /\ pc[r] = "done"
    /\ error[r] = NO_ERROR
    /\ rng[r].calls = TOTAL_DRAWS
    /\ TOTAL_DRAWS = 3995
    /\ pos[r] = COLLECTION_SIZE
    /\ Cardinality(DOMAIN files[r]) = COLLECTION_SIZE

\* No step is repeated: every step of a run consumes at most the next
\* blueprint, a record step makes 11 draws, and a step that writes a file
\* writes the file of the record built last, which was not there before
NothingRepeated ==
    \A r \in runs :
        /\ pos'[r] \in {pos[r], pos[r] + 1}
        /\ pos'[r] = pos[r] + 1 => rng'[r].calls = rng[r].calls + RECORD_DRAWS
        /\ files'[r] # files[r] =>
              /\ OutPath(nft[r]) \notin DOMAIN files[r]
              /\ DOMAIN files'[r] = DOMAIN files[r] \cup {OutPath(nft[r])}
              /\ Cardinality(DOMAIN files'[r]) = pos[r]

\* C27: a run of generateCollection with valid inputs terminates: it
\* completes after exactly 332 + 11 * 333 = 3995 draws with each of the 333
\* records written once, and no step is retried or repeated.
C27_Termination ==
    /\ \A r \in {1} : (pc[r] = "call" /\ ValidInputs) ~> Completed(r)
    /\ [][NothingRepeated]_vars

\* The run has completed with all its draws made and all its files written
C27_Witness ==
    \E r \in runs :
        /\ Completed(r)
        /\ ValidInputs
        /\ OutPath(nft[r]) \in DOMAIN files[r]

\* What a run owns
Own(r) == <<pc[r], rng[r], blueprints[r], pos[r], nft[r], mintTimestamp[r],
            files[r], error[r]>>

\* A step of a run leaves everything another run owns as it was, its cursor
\* first; a step that builds a record draws the record's 11 values from the
\* cursor of its own run.
NoInterference ==
    \A r \in runs : Own(r)' # Own(r) =>
        /\ \A q \in runs \ {r} : Own(q)' = Own(q)
        /\ pos'[r] = pos[r] + 1 =>
              /\ rng'[r] = Iterate(rng[r], RECORD_DRAWS)
              /\ nft'[r] = buildGeneratedNft(blueprints[r][pos[r] + 1],
                                             ReadConfig(configPath), rng[r],
                                             mintTimestamp[r]).nft

\* Two runs with the same arguments that have built as many records have the
\* same cursor, the same blueprints and the same record
SameOutcome ==
    \A r, q \in runs :
        (pc[r] # "call" /\ pc[q] # "call" /\ pos[r] = pos[q]) =>
            /\ rng[r] = rng[q]
            /\ blueprints[r] = blueprints[q]
            /\ pos[r] > 0 => SameRecord(nft[r], nft[q])

\* C28: the cursor of the stream belongs to one run: when two runs of
\* generateCollection are interleaved at their awaits, no step of one run
\* moves the cursor (or anything else) of the other, and each run builds the
\* records it builds alone: every record from the run's own cursor, and the
\* same records in both runs when their arguments are the same.
C28_OwnCursor == []SameOutcome /\ [][NoInterference]_vars

\* Both runs await the write of their second record: the draws of the first
\* two records of one run lie between draws of the other
C28_Witness ==
    /\ runs = {1, 2}
    /\ pos[1] = 2
    /\ pos[2] = 2
    /\ pc[1] = "write"
    /\ pc[2] = "write"
    /\ Cardinality(DOMAIN files[1]) = 1
    /\ Cardinality(DOMAIN files[2]) = 1

\* The (station, archetype) pairs of an array of blueprints
PairsOf(array) ==
    {<<array[k].station, array[k].archetype>> : k \in 1..Len(array)}

\* How many blueprints of the array have the pair
PairCount(array, pair) ==
    Cardinality({k \in 1..Len(array) :
                    <<array[k].station, array[k].archetype>> = pair})

\* How many blueprints of the array belong to the station and the archetype
StationCount(array, stationId, archetype) ==
    Cardinality({k \in 1..Len(array) :
                    /\ array[k].station.id = stationId
                    /\ array[k].archetype = archetype})

\* C29: the shuffle and the re-indexing of buildNftBlueprints change only the
\* order and the ids: the returned array has, for every station of the
\* distribution, exactly the hybrids, bulls and bears of getArchetypeCounts
\* (alloc.count in all), and its multiset of (station, archetype) pairs is
\* that of the array before the shuffle.
C29_ShufflePreserves ==
    \A r \in runs : Built(r) =>
        LET returned == blueprints[r]
        IN  /\ Len(returned) = Len(Unshuffled)
            /\ \A pair \in PairsOf(Unshuffled) \cup PairsOf(returned) :
                  PairCount(returned, pair) = PairCount(Unshuffled, pair)
            /\ \A k \in 1..Len(dist) :
                  LET counts == getArchetypeCounts(dist[k])
                      n(a)   == StationCount(returned, dist[k].stationId, a)
                  IN  /\ n("Hybrid") = counts.hybrids
                      /\ n("Bull") = counts.bulls
                      /\ n("Bear") = counts.bears
                      /\ n("Hybrid") + n("Bull") + n("Bear") = dist[k].count

\* All 333 blueprints have been returned in another order than before the
\* shuffle: at some position the blueprint is of another station and of
\* another archetype, under the id the position had before
C29_Witness ==
    \E r \in runs :
        /\ Built(r)
        /\ Len(blueprints[r]) = COLLECTION_SIZE
        /\ \E k \in 1..Len(blueprints[r]) :
              /\ blueprints[r][k].station # Unshuffled[k].station
              /\ blueprints[r][k].archetype # Unshuffled[k].archetype
              /\ blueprints[r][k].id = Unshuffled[k].id

\* The states of the stream after its next 1, ..., n draws from the state r.
\* The range is halved so that the evaluation does not nest once per draw.
RECURSIVE StatesAfter(_, _)
StatesAfter(r, n) ==
    IF n <= 0 THEN <<>>
    ELSE IF n = 1 THEN <<RngNext(r)>>
    ELSE LET first == StatesAfter(r, n \div 2)
         IN  IF Len(first) > 0
             THEN first \o StatesAfter(first[Len(first)], n - (n \div 2))
             ELSE first

\* The swap index of every pass of shuffleInPlace over an array of N elements,
\* from the stream state r0: pass i takes the (N - i)-th draw and n = i + 1
SwapIndicesInRange(r0, N) ==
    LET drawn == StatesAfter(r0, N - 1)
    IN  \A i \in 1..(N - 1) :
            LET j == FloorMul(drawn[N - i], i + 1)
            IN  0 <= j /\ j <= i

\* The trait index of every layer and the character index of every position
\* of the tag of a record, from the stream state r0
RecordIndicesInRange(layers, r0) ==
    LET drawn == StatesAfter(r0, Len(layers) + TAG_LENGTH)
    IN  /\ \A l \in 1..Len(layers) :
              FloorMul(drawn[l], Len(layers[l].traits))
                 \in 0..(Len(layers[l].traits) - 1)
        /\ \A i \in 1..TAG_LENGTH :
              FloorMul(drawn[Len(layers) + i], Len(INSCRIPTION_CHARS))
                 \in 0..(Len(INSCRIPTION_CHARS) - 1)

\* In a step that shuffles, every swap index is in range and every element of
\* the returned array is an element of the array before the shuffle; in a step
\* that builds a record, every trait index and every character index is in
\* range, every trait is a trait of its layer and every character of the tag a
\* character of the alphabet.
IndexedInRange ==
    \A r \in runs :
        /\ (pc[r] = "call" /\ blueprints'[r] # blueprints[r]) =>
              /\ SwapIndicesInRange(createRng(RngSeed(seedArg, envSeed)),
                                    Len(Unshuffled))
              /\ Len(blueprints'[r]) = Len(Unshuffled)
              /\ PairsOf(blueprints'[r]) \subseteq PairsOf(Unshuffled)
        /\ pos'[r] = pos[r] + 1 =>
              LET layers == ReadConfig(configPath).layers
              IN  /\ RecordIndicesInRange(layers, rng[r])
                  /\ Len(nft'[r].traits) = Len(layers)
                  /\ \A l \in 1..Len(layers) :
                        \E t \in 1..Len(layers[l].traits) :
                            nft'[r].traits[l].value = layers[l].traits[t].name
                  /\ Len(nft'[r].inscriptionTag) = TAG_LENGTH
                  /\ \A i \in 1..TAG_LENGTH :
                        \E c \in 1..Len(INSCRIPTION_CHARS) :
                            nft'[r].inscriptionTag[i] = INSCRIPTION_CHARS[c]

\* C30: every index floor(draw * n) lies in 0..n-1: the swap index j of
\* shuffleInPlace (0 <= j <= i), the trait index of pickRandomTrait and the
\* character index of generateTag; no undefined element is selected or
\* swapped in, so that no run fails on an undefined trait.
C30_IndicesInRange ==
    /\ [](\A r \in runs : error[r] # "TypeError")
    /\ [][IndexedInRange]_vars

\* A record has been built, after the shuffle of all 333 blueprints, whose
\* draws reached both ends of the range: the first trait of one layer (index
\* 0) and the last trait of another (index n - 1)
C30_Witness ==
    \E r \in runs :
        /\ pc[r] = "write"
        /\ Len(blueprints[r]) = COLLECTION_SIZE
        /\ LET layers == ReadConfig(configPath).layers
           IN  /\ \E l \in 1..Len(layers) :
                     nft[r].traits[l].value = layers[l].traits[1].name
               /\ \E l \in 1..Len(layers) :
                     nft[r].traits[l].value
                        = layers[l].traits[Len(layers[l].traits)].name

-----------------------------------------------------------------------------
(* The image generators *)

\* The layer keys from the bottom of the image to its top
BOTTOM_TO_TOP ==
    <<"background", "body", "headwear", "eyes", "mouth", "accessory", "aura">>

Rank(layerKey) == CHOOSE k \in 1..Len(BOTTOM_TO_TOP) : BOTTOM_TO_TOP[k] = layerKey

\* The layers of a list come in rendering order
InRenderingOrder(list) ==
    \A i, j \in 1..Len(list) :
        i < j => Rank(list[i].layerKey) < Rank(list[j].layerKey)

\* The metadata file of the image that is being generated
CurrentMetadata ==
    IF generator = GENERATE_IMAGE THEN metadataDir[jsonFiles[cursor]]
    ELSE metadataDir[MetadataName(cursor)]

\* The layer list of a metadata record, whichever generator extracts it
ExtractedFrom(metadata) ==
    IF generator = GENERATE_IMAGE
    THEN extractLayerAssets(metadata, ReadConfig(configPath), ASSETS_DIR)
    ELSE extractLayerInfo(metadata, ReadConfig(configPath), ASSETS_DIR).layers

\* The layers of an image above its transparent canvas, if it has one
Painted(image) == SelectSeq(image, LAMBDA b : b.layerKey # "canvas")

\* C21: the extracted layer list is in the order background, body, headwear,
\* eyes, mouth, accessory, aura, and is the list extracted from the same
\* attributes in reverse order; the composited image holds the layers of the
\* list from bottom to top in that order, in whatever order the resizes
\* started together have completed; so does every image written.
C21_RenderingOrder ==
    /\ InRenderingOrder(layerList)
    /\ layerList # <<>> =>
          layerList = ExtractedFrom([CurrentMetadata EXCEPT !.attributes = Reverse(@)])
    /\ imageBuffer # <<>> =>
          Painted(imageBuffer) = [i \in 1..Len(layerList) |-> Resized(layerList[i])]
    /\ \A name \in DOMAIN images : InRenderingOrder(Painted(images[name]))

\* An image of seven layers is composited from attributes that are not in
\* rendering order, and the resize of the lowest overlay has completed last
C21_Witness ==
    /\ generator = GENERATE_IMAGE
    /\ ipc = "writeFile"
    /\ Len(imageBuffer) = LAYER_COUNT
    /\ lastCompleted = 1
    /\ CurrentMetadata.attributes[1].trait_type = "Mint Timestamp"

\* The layers of a record whose reference generateNftImage cannot resolve:
\* the trait (or the layer) is not in the configuration, or the file of the
\* trait is not among the asset files
NotResolved(metadata) ==
    {LAYER_ORDER[k] : k \in
        {k \in 1..Len(LAYER_ORDER) :
            LET attr     == LayerAttribute(metadata, LAYER_ORDER[k])
                resolved == resolveAssetPath(ASSETS_DIR, LAYER_ORDER[k],
                                             The(attr).value, ReadConfig(configPath))
            IN  /\ attr # NONE
                /\ \/ resolved.threw
                   \/ resolved.assetPath \notin assetFiles}}

\* generateNftImage has failed for a record whose metadata it has read
NftImageFailed ==
    /\ generator = GENERATE_NFT_IMAGE
    /\ ipc = "rejected"
    /\ MetadataName(cursor) \in DOMAIN metadataDir

\* C22 (as specified): when generateNftImage fails for a record, its one
\* error lists every layer reference of the record that cannot be resolved,
\* unknown trait names and missing asset files alike.
C22_AllMissingListed ==
    NftImageFailed =>
        NotResolved(CurrentMetadata) \subseteq
            {The(rejection).names[i] : i \in 1..Len(The(rejection).names)}

\* A layer of the rendering order has no attribute in the metadata, or its
\* attribute names a layer or a trait that the configuration does not have
HasResolutionError(metadata) ==
    \E k \in 1..Len(LAYER_ORDER) :
        LET attr == LayerAttribute(metadata, LAYER_ORDER[k])
        IN  \/ attr = NONE
            \/ resolveAssetPath(ASSETS_DIR, LAYER_ORDER[k], The(attr).value,
                                ReadConfig(configPath)).threw

\* The name of the image of the metadata file `${pad3(k)}.json`
ImageOf(k) ==
    IF generator = GENERATE_IMAGE THEN ImageFilename(MetadataName(k))
    ELSE String(k) \o <<".png">>

\* C23 (as specified): a resolution error is fatal for its record in both
\* generators: no image file is written for a metadata file one of whose 7
\* layers lacks its attribute or names an unknown layer or trait.
C23_ResolutionErrorFatal ==
    \A k \in MetadataIds(metadataDir) :
        HasResolutionError(metadataDir[MetadataName(k)])
            => ImageOf(k) \notin DOMAIN images

\* Generating the image of a metadata file has failed
ImageFailed == Len(caught) > 0

\* C24 (as specified): an error raised while an image is generated is
\* propagated: once the image of any metadata file has failed, the batch
\* generateAllImages does not complete successfully.
C24_ErrorsPropagated == ImageFailed => ipc # "resolved"

====
